---- MODULE Spec2Model ----
(***************************************************************************)
(* Model of the escrow lifecycle client                                    *)
(* (ethereum/oneinch/escrow_integration.go and its initialisation helper)  *)
(* together with the parts of its environment the client talks to: the     *)
(* ledger node (pending pool, account nonce) and the deployed escrow       *)
(* factory / escrow instance contracts.                                    *)
(*                                                                         *)
(* Every remote call of the client is one step of a client process, so     *)
(* that concurrent invocations interleave exactly where the Go code        *)
(* blocks on the network.                                                  *)
(***************************************************************************)
EXTENDS Integers, Sequences, FiniteSets, TLC

\* ------------------------------------------------------------------ bounds
\* Number of client invocations started in one behaviour, when one caller
\* uses the client (calls never overlap) ...
MaxCalls == 3
\* ... and when two callers use it at once.
MaxConcurrentCalls == 2
\* Last value of the ledger clock.
MaxTime == 2
\* Invocations started in one behaviour when contexts may expire ...
MaxDeadlineCalls == 2
\* ... and when the client is the backend's.
MaxBackendCalls == 1

\* --------------------------------------------------------------- constants
\* auth.GasLimit = uint64(300000)
GasLimit == 300000

Procs == {"p1", "p2"}

Nil == "nil"
\* A nil pointer to a struct (client, transaction).
NilPtr == [nil |-> TRUE]
Present == "present"

\* common.Address{} and the addresses of the deployment.
ZeroAddress == "0x00"
FactoryAddr == "0xFA"
AdapterAddr == "0xAD"
ClaimerAddr == "0xC1"
TokenAddr == "0x70"

\* What the node answers to SuggestGasPrice and ChainID.
NodeInfo == [gasPrice |-> 2, chainID |-> 1337]

\* 32-byte values the callers pass as secret / refund key.
Bytes32 == {1, 2}

\* The commitment hash the contract applies to a revealed secret.
Keccak(x) == (3 * x + 2) % 7

\* Package-level sentinel errors ("Common errors").
ErrInvalidSwapParams == "invalid swap parameters"
ErrInsufficientFunds == "insufficient funds"
ErrSwapAlreadyExists == "swap already exists"
ErrSwapDoesNotExist == "swap does not exist"
ErrInvalidSwapState == "invalid swap state"
ErrInvalidSecret == "invalid secret"
ErrTimeoutNotReached == "timeout not reached"
ErrTimeoutExceeded == "timeout exceeded"

\* Errors the network handle produces: a transport failure, and the two
\* rejections of the node's pending pool.
RPCError == "rpc error"
DecodeError == "abi: cannot unmarshal"
ErrNonceTooLow == "nonce too low"
\* What the network handle returns for a call made with a context that is
\* already cancelled or past its deadline.
ErrContextCanceled == "context canceled"
ErrReplaceUnderpriced == "replacement transaction underpriced"

\* ------------------------------------------------------------- SwapParams
NativeParams ==
    [Claimer |-> ClaimerAddr, ClaimCommitment |-> Keccak(1),
     RefundCommitment |-> Keccak(2), Timeout1 |-> 1, Timeout2 |-> 2,
     Asset |-> ZeroAddress, Value |-> 1]

TokenParams == [NativeParams EXCEPT !.Asset = TokenAddr, !.Value = 2]

\* The parameter records the callers pass: two well-formed ones and one
\* for each way of being malformed.
ParamsSeq ==
    << NativeParams,
       TokenParams,
       [NativeParams EXCEPT !.Timeout1 = 2],
       [NativeParams EXCEPT !.Value = 0],
       [NativeParams EXCEPT !.Claimer = ZeroAddress] >>

ParamsSet == {ParamsSeq[i] : i \in DOMAIN ParamsSeq}

EscrowAddrSeq == << "0xE1", "0xE2", "0xE3", "0xE4", "0xE5" >>

EscrowAddrs == {EscrowAddrSeq[i] : i \in DOMAIN EscrowAddrSeq}

\* Address returned for an argument tuple the factory has no escrow for.
UnknownEscrow == "0xEE"

\* Escrow address the callers pass to ClaimSwap / RefundSwap / GetSwapState:
\* the escrow of the native-currency terms.
Targets == {"0xE1"}

\* An address where a later revision of the escrow is deployed: its
\* getState() answers a code this client has no name for.
ForeignAddr == "0xF0"
UnknownCode == 4

\* ------------------------------------------------- the deployed contracts
\* Lifecycle state of an escrow and the code getState() returns for it.
StateCode ==
    [Uninitialized |-> 0, Deposited |-> 1, Claimed |-> 2, Refunded |-> 3]

EscrowStates == DOMAIN StateCode

\* The factory reads its eight arguments by position.
FactoryArgs(adapter, p) ==
    << adapter, p.Claimer, p.ClaimCommitment, p.RefundCommitment,
       p.Timeout1, p.Timeout2, p.Asset, p.Value >>

\* calculateEscrowAddress(...) of the factory: the deterministic address of
\* the escrow for an argument tuple, a function of the arguments alone.
FactoryCalculateEscrowAddress(args) ==
    IF \E i \in DOMAIN ParamsSeq : args = FactoryArgs(AdapterAddr, ParamsSeq[i])
    THEN EscrowAddrSeq[CHOOSE i \in DOMAIN ParamsSeq :
                           args = FactoryArgs(AdapterAddr, ParamsSeq[i])]
    ELSE UnknownEscrow

\* The terms an escrow address was derived from.
ParamsAt(addr) ==
    ParamsSeq[CHOOSE i \in DOMAIN EscrowAddrSeq : EscrowAddrSeq[i] = addr]

\* The invariants of a swap's terms: a claimer, a claim deadline before the
\* refund deadline, a positive amount.
WellFormed(p) ==
    /\ p.Claimer # ZeroAddress
    /\ p.Timeout1 < p.Timeout2
    /\ p.Value > 0

\* deposit(...) of the factory, executed with msgValue attached. funded says
\* whether a token transfer of the deposit goes through.
FactoryDeposit(args, msgValue, st, funded) ==
    LET addr == FactoryCalculateEscrowAddress(args)
        asset == args[7]
        value == args[8]
    IN  IF addr \notin EscrowAddrs \/ ~WellFormed(ParamsAt(addr))
        THEN [escrows |-> st, status |-> ErrInvalidSwapParams]
        ELSE IF st[addr] # "Uninitialized"
        THEN [escrows |-> st, status |-> ErrSwapAlreadyExists]
        ELSE IF (asset = ZeroAddress /\ msgValue # value)
                \/ (asset # ZeroAddress /\ ~funded)
        THEN [escrows |-> st, status |-> ErrInsufficientFunds]
        ELSE [escrows |-> [st EXCEPT ![addr] = "Deposited"],
              status |-> "success"]

\* The claim deadline and the refund window of an escrow.
ClaimOpen(p, t) == t <= p.Timeout1
RefundOpen(p, t) == t >= p.Timeout2

\* withdraw(secret) of an escrow instance.
EscrowWithdraw(addr, secret, st, t) ==
    IF addr \notin EscrowAddrs \/ st[addr] = "Uninitialized"
    THEN [escrows |-> st, status |-> ErrSwapDoesNotExist]
    ELSE IF st[addr] # "Deposited"
    THEN [escrows |-> st, status |-> ErrInvalidSwapState]
    ELSE IF Keccak(secret) # ParamsAt(addr).ClaimCommitment
    THEN [escrows |-> st, status |-> ErrInvalidSecret]
    ELSE IF ~ClaimOpen(ParamsAt(addr), t)
    THEN [escrows |-> st, status |-> ErrTimeoutExceeded]
    ELSE [escrows |-> [st EXCEPT ![addr] = "Claimed"], status |-> "success"]

\* refund(refundKey) of an escrow instance.
EscrowRefund(addr, key, st, t) ==
    IF addr \notin EscrowAddrs \/ st[addr] = "Uninitialized"
    THEN [escrows |-> st, status |-> ErrSwapDoesNotExist]
    ELSE IF st[addr] # "Deposited"
    THEN [escrows |-> st, status |-> ErrInvalidSwapState]
    ELSE IF Keccak(key) # ParamsAt(addr).RefundCommitment
    THEN [escrows |-> st, status |-> ErrInvalidSecret]
    ELSE IF ~RefundOpen(ParamsAt(addr), t)
    THEN [escrows |-> st, status |-> ErrTimeoutNotReached]
    ELSE [escrows |-> [st EXCEPT ![addr] = "Refunded"], status |-> "success"]

\* Execution of one included transaction by the ledger.
Execute(tx, st, t, funded) ==
    CASE tx.method = "deposit" -> FactoryDeposit(tx.args, tx.value, st, funded)
      [] tx.method = "withdraw" -> EscrowWithdraw(tx.to, tx.args[1], st, t)
      [] tx.method = "refund" -> EscrowRefund(tx.to, tx.args[1], st, t)

\* ------------------------------------------------------ client construction
\* NewXMREscrowClient with the adapter-address check left out.
NewXMREscrowClientNoAdapterCheck(client, swapCreator, factoryAddress, adapterAddress, privateKey) ==
    IF client = Nil
    THEN [client |-> NilPtr, err |-> "ethclient is required"]
    ELSE IF swapCreator = Nil
    THEN [client |-> NilPtr, err |-> "swap creator is required"]
    ELSE IF privateKey = Nil
    THEN [client |-> NilPtr, err |-> "private key is required"]
    ELSE IF factoryAddress = ZeroAddress
    THEN [client |-> NilPtr, err |-> "factory address is required"]
    ELSE [client |-> [client |-> client, swapCreator |-> swapCreator,
                      factoryAddress |-> factoryAddress,
                      adapterAddress |-> adapterAddress,
                      privateKey |-> privateKey],
          err |-> Nil]

\* NewXMREscrowClient: the five checks in the order of the code, then the
\* three embedded ABIs (constant JSON, which always parses).
NewXMREscrowClient(client, swapCreator, factoryAddress, adapterAddress, privateKey) ==
    IF client = Nil
    THEN [client |-> NilPtr, err |-> "ethclient is required"]
    ELSE IF swapCreator = Nil
    THEN [client |-> NilPtr, err |-> "swap creator is required"]
    ELSE IF privateKey = Nil
    THEN [client |-> NilPtr, err |-> "private key is required"]
    ELSE IF factoryAddress = ZeroAddress
    THEN [client |-> NilPtr, err |-> "factory address is required"]
    ELSE IF adapterAddress = ZeroAddress
    THEN [client |-> NilPtr, err |-> "adapter address is required"]
    ELSE [client |-> [client |-> client, swapCreator |-> swapCreator,
                      factoryAddress |-> factoryAddress,
                      adapterAddress |-> adapterAddress,
                      privateKey |-> privateKey],
          err |-> Nil]

\* InitializeEscrowClient: ethClient is the wrapper whose Raw() and
\* PrivateKey() accessors yield the network handle and the signing key.
InitializeEscrowClient(ethClient, swapCreator, factoryAddr, adapterAddr) ==
    IF factoryAddr = ZeroAddress
    THEN [client |-> NilPtr, err |-> "escrow factory address is required"]
    ELSE IF adapterAddr = ZeroAddress
    THEN [client |-> NilPtr, err |-> "escrow adapter address is required"]
    ELSE IF swapCreator = Nil
    THEN [client |-> NilPtr, err |-> "swap creator is required"]
    ELSE IF ethClient.Raw = Nil
    THEN [client |-> NilPtr, err |-> "failed to get raw ethclient"]
    ELSE IF ethClient.PrivateKey = Nil
    THEN [client |-> NilPtr, err |-> "failed to get private key from ethclient"]
    ELSE LET r == NewXMREscrowClient(ethClient.Raw, swapCreator, factoryAddr,
                                     adapterAddr, ethClient.PrivateKey)
         IN  IF r.err # Nil
             THEN [client |-> NilPtr, err |-> "failed to create escrow client"]
             ELSE r

\* Inputs of a construction.
Handles == {Nil, Present}
CtorInputs ==
    [client : Handles, swapCreator : Handles, privateKey : Handles,
     factoryAddress : {ZeroAddress, FactoryAddr},
     adapterAddress : {ZeroAddress, AdapterAddr}]

\* ------------------------------------------------ address configuration
\* Number of hex digits of an address, scaled down (one digit stands for
\* one byte of the address).
AddrHexLen == 1

\* Characters a value of the environment is made of: two hex digits, the
\* "x" of the prefix and a character that is no hex digit.
Alphabet == {"0", "a", "x", "g"}
HexDigits == {"0", "a"}
HexVal(c) == IF c = "a" THEN 10 ELSE 0

\* Values of an environment variable; the empty string is what os.Getenv
\* returns for a variable that is not set.
MaxEnvLen == AddrHexLen + 2
EnvValues == UNION {[1..n -> Alphabet] : n \in 0..MaxEnvLen}
Envs == [ESCROW_FACTORY_ADDRESS : EnvValues, ESCROW_ADAPTER_ADDRESS : EnvValues]

\* ethcommon.Address{} as the loaders return it: all bytes zero.
ZeroAddressBytes == [i \in 1..AddrHexLen |-> 0]

\* strings.HasPrefix(s, "0x")
HasPrefix0x(s) == Len(s) >= 2 /\ s[1] = "0" /\ s[2] = "x"

\* The prefix put in front of the value whether it has one or not.
EnsurePrefixAlways(s) == << "0", "x" >> \o s

\* if !strings.HasPrefix(s, "0x") { s = "0x" + s }
EnsurePrefix(s) == IF HasPrefix0x(s) THEN s ELSE << "0", "x" >> \o s

\* The string without its prefix, if it has one.
TrimPrefix0x(s) == IF HasPrefix0x(s) THEN SubSeq(s, 3, Len(s)) ELSE s

\* ethcommon.IsHexAddress: an optional prefix, then exactly the address's
\* number of hex digits.
IsHexAddress(s) ==
    LET h == TrimPrefix0x(s)
    IN  Len(h) = AddrHexLen /\ \A i \in 1..Len(h) : h[i] \in HexDigits

\* Hex2Bytes: the bytes decoded up to the first character that is no hex
\* digit.
RECURSIVE Hex2Bytes(_)
Hex2Bytes(h) ==
    IF h = << >> \/ Head(h) \notin HexDigits
    THEN << >>
    ELSE << HexVal(Head(h)) >> \o Hex2Bytes(Tail(h))

\* BytesToAddress: the bytes right-aligned in the address, cropped from the
\* left when there are too many.
BytesToAddress(b) ==
    [i \in 1..AddrHexLen |->
        IF Len(b) - AddrHexLen + i >= 1 THEN b[Len(b) - AddrHexLen + i] ELSE 0]

\* ethcommon.HexToAddress
HexToAddress(s) == BytesToAddress(Hex2Bytes(TrimPrefix0x(s)))

\* GetEscrowAddressesFromEnv that takes the adapter's value as it is.
GetEscrowAddressesFromEnvAdapterUnchecked(e) ==
    LET factoryAddrStr == EnsurePrefix(e.ESCROW_FACTORY_ADDRESS)
        adapterAddrStr == EnsurePrefix(e.ESCROW_ADAPTER_ADDRESS)
        failed(msg) == [factoryAddr |-> ZeroAddressBytes,
                        adapterAddr |-> ZeroAddressBytes, err |-> msg]
    IN  IF e.ESCROW_FACTORY_ADDRESS = << >>
        THEN failed("ESCROW_FACTORY_ADDRESS environment variable not set")
        ELSE IF ~IsHexAddress(factoryAddrStr)
        THEN failed("invalid ethereum address format for ESCROW_FACTORY_ADDRESS")
        ELSE [factoryAddr |-> HexToAddress(factoryAddrStr),
              adapterAddr |-> HexToAddress(adapterAddrStr), err |-> Nil]

\* GetEscrowAddressesFromEnv: the strict loader.
GetEscrowAddressesFromEnv(e) ==
    LET factoryAddrStr == EnsurePrefix(e.ESCROW_FACTORY_ADDRESS)
        adapterAddrStr == EnsurePrefix(e.ESCROW_ADAPTER_ADDRESS)
        failed(msg) == [factoryAddr |-> ZeroAddressBytes,
                        adapterAddr |-> ZeroAddressBytes, err |-> msg]
    IN  IF e.ESCROW_FACTORY_ADDRESS = << >>
        THEN failed("ESCROW_FACTORY_ADDRESS environment variable not set")
        ELSE IF ~IsHexAddress(factoryAddrStr)
        THEN failed("invalid ethereum address format for ESCROW_FACTORY_ADDRESS")
        ELSE IF e.ESCROW_ADAPTER_ADDRESS = << >>
        THEN failed("ESCROW_ADAPTER_ADDRESS environment variable not set")
        ELSE IF ~IsHexAddress(adapterAddrStr)
        THEN failed("invalid ethereum address format for ESCROW_ADAPTER_ADDRESS")
        ELSE [factoryAddr |-> HexToAddress(factoryAddrStr),
              adapterAddr |-> HexToAddress(adapterAddrStr), err |-> Nil]

\* A fallback taken for each variable on its own: the address of a variable
\* that is set and valid, the zero address for one that is not.
GetEscrowAddressesWithFallbackPerVariable(e) ==
    LET one(v) == IF v # << >> /\ IsHexAddress(EnsurePrefix(v))
                  THEN HexToAddress(EnsurePrefix(v))
                  ELSE ZeroAddressBytes
    IN  [factoryAddr |-> one(e.ESCROW_FACTORY_ADDRESS),
         adapterAddr |-> one(e.ESCROW_ADAPTER_ADDRESS)]

\* GetEscrowAddressesWithFallback: the loader that never reports an error.
GetEscrowAddressesWithFallback(e) ==
    LET r == GetEscrowAddressesFromEnv(e)
    IN  IF r.err # Nil
        THEN [factoryAddr |-> ZeroAddressBytes, adapterAddr |-> ZeroAddressBytes]
        ELSE [factoryAddr |-> r.factoryAddr, adapterAddr |-> r.adapterAddr]

\* The address of the deployment a loaded 20-byte value stands for: the
\* zero address for the zero value, and the named contract otherwise.
DeployedAt(bytes, named) == IF bytes = ZeroAddressBytes THEN ZeroAddress ELSE named

\* ---------------------------------------------------- record conversion
OwnerAddr == "0x0A"

\* contracts.SwapCreatorSwap records as the SwapCreator contract holds them.
SwapRecords ==
    [Owner : {OwnerAddr}, Claimer : {ZeroAddress, ClaimerAddr},
     ClaimCommitment : {Keccak(1), Keccak(2)},
     RefundCommitment : {Keccak(1), Keccak(2)},
     Timeout1 : 1..2, Timeout2 : 1..2,
     Asset : {ZeroAddress, TokenAddr}, Value : 0..2, Nonce : 0..1]

\* A conversion that takes the two deadlines in the wrong order.
ConvertSwapCreatorSwapToParamsSwapped(s) ==
    [Claimer |-> s.Claimer, ClaimCommitment |-> s.ClaimCommitment,
     RefundCommitment |-> s.RefundCommitment, Timeout1 |-> s.Timeout2,
     Timeout2 |-> s.Timeout1, Asset |-> s.Asset, Value |-> s.Value]

\* ConvertSwapCreatorSwapToParams: seven fields copied by name; the
\* record's Owner and Nonce have no place in SwapParams.
ConvertSwapCreatorSwapToParams(s) ==
    [Claimer |-> s.Claimer, ClaimCommitment |-> s.ClaimCommitment,
     RefundCommitment |-> s.RefundCommitment, Timeout1 |-> s.Timeout1,
     Timeout2 |-> s.Timeout2, Asset |-> s.Asset, Value |-> s.Value]

\* ------------------------------------------------- the backend accessors
\* EscrowClient() handing out the field as it is.
EscrowClientUnchecked(b) == [client |-> b, err |-> Nil]

\* (b *backend) EscrowClient()
EscrowClient(b) ==
    IF b = NilPtr
    THEN [client |-> NilPtr, err |-> "escrow client not initialized"]
    ELSE [client |-> b, err |-> Nil]

\* (b *backend) HasEscrowClient()
HasEscrowClient(b) == b # NilPtr

\* ---------------------------------------------------------------- state
VARIABLES
    escrowClient,   \* the constructed *XMREscrowClient, or NilPtr
    ctor,           \* the last construction: inputs and result
    pc,             \* per invocation: the remote call it is about to make
    call,           \* per invocation: the operation and its arguments
    nonce,          \* per invocation: local `nonce` of getAuth
    auth,           \* per invocation: the *bind.TransactOpts built by getAuth
    escrowAddress,  \* per invocation: local `escrowAddress` of CreateSwap
    reads,          \* per invocation: remote calls made so far, by kind
    ret,            \* per invocation: the values returned to the caller
    calls,          \* invocations started so far
    ctx,            \* per invocation: the context.Context the caller passed
    accountNonce,   \* node: transactions of the key already included
    mempool,        \* node: accepted transactions of the key, not yet included
    escrowState,    \* ledger: lifecycle state of every escrow
    receipt,        \* ledger: outcome of the last included transaction
    now,            \* ledger clock (starts at the claim deadline's last moment)
    env,            \* the process environment: the two address variables
    loaded,         \* what the last call of an address loader returned
    swap,           \* a swap record of the SwapCreator contract
    converted,      \* the SwapParams made from it
    view,           \* what the backend's accessors last answered
    exchangeRateCache,  \* frontend: the cached XMR/USDC rate and its timestamp
    rateCall,       \* frontend: per caller, its call of fetchExchangeRate
    rateEnv,        \* frontend: script in use, wall clock, price requests made
    statusInterval, \* frontend: the status polling pollSwapStatus set up
    flow            \* frontend: a run of initiateUsdcToXmrSwap

vars ==
    << escrowClient, ctor, pc, call, nonce, auth, escrowAddress, reads, ret,
       calls, ctx, accountNonce, mempool, escrowState, receipt, now,
       env, loaded, swap, converted, view,
       exchangeRateCache, rateCall, rateEnv, statusInterval, flow >>

clientVars == << pc, call, nonce, auth, escrowAddress, reads, ret, calls, ctx >>
nodeVars == << accountNonce, mempool >>
ledgerVars == << escrowState, receipt, now >>
\* The configuration side: environment, loaders, conversion, backend.
\* The browser side: rate cache, status polling, swap flow.
rateVars == << exchangeRateCache, rateCall, rateEnv >>
frontendVars == << rateVars, statusInterval, flow >>
configVars == << env, loaded, swap, converted, view, frontendVars >>

NoCall == [op |-> "none"]
NoAuth == [Nonce |-> -1, Value |-> 0, GasLimit |-> 0, GasPrice |-> 0]
NoReads ==
    [PendingNonceAt |-> 0, SuggestGasPrice |-> 0, ChainID |-> 0,
     CallContract |-> 0, SendTransaction |-> 0]
NoRet == [tx |-> NilPtr, addr |-> ZeroAddress, state |-> 0, err |-> Nil]
NoReceipt == "none"

\* A context.Context: still live, or cancelled / past its deadline.
CtxLive == "live"
CtxDone == "done"

NoEnv == [ESCROW_FACTORY_ADDRESS |-> << >>, ESCROW_ADAPTER_ADDRESS |-> << >>]
NoLoad == [fn |-> "none"]
NoSwap == [Owner |-> ZeroAddress]
NoParams == [Claimer |-> "none"]
NoView == [of |-> "none"]

\* ------------------------------------------------- the browser's values
\* A rate as JavaScript holds it: a positive number, 0, null or undefined.
JsNull == -1
JsUndefined == -2

\* Truthiness of such a value: null, undefined and 0 are falsy.
Truthy(v) == v > 0

\* The rates the price service quotes.
Rates == {140, 160}

\* `|| 150`: the rate returned when there is none to fall back on.
DefaultRate == 150

\* 5 * 60 * 1000 ms, in minutes: how long a cached rate is used.
CacheTTL == 5

\* Last minute of the wall clock.
MaxRateClock == 6

\* Calls of fetchExchangeRate in a run.
MaxRateCalls == 3

\* Two callers may be inside fetchExchangeRate at once: the amount field's
\* handler and the rate display's timer.
RateCallers == {"c1", "c2"}

\* The two scripts that define fetchExchangeRate.
RateScripts == {"swap.js", "constants-global.js"}

NoResponse == [kind |-> "none", monero |-> FALSE, usd |-> JsUndefined]

\* What a price request ends with: no response, a body that is no JSON, a
\* JSON body without the monero entry, or one with it, whose usd is a
\* rate, zero or missing.
PriceResponses ==
    {[kind |-> k, monero |-> FALSE, usd |-> JsUndefined] :
        k \in {"networkError", "notJSON", "json"}}
      \cup {[kind |-> "json", monero |-> TRUE, usd |-> u] :
               u \in Rates \cup {0, JsUndefined}}

\* let exchangeRateCache = { xmrToUsdc: null, lastUpdated: 0 }
EmptyCache == [xmrToUsdc |-> JsNull, lastUpdated |-> 0]

NoRateCall ==
    [pc |-> "idle", now |-> 0, response |-> NoResponse, result |-> JsNull]

\* Polling periods (of 5 s) until the polling's timeout (10 min) fires.
PollTimeoutTicks == 3

\* Last polling period of a run.
MaxPollTime == PollTimeoutTicks + 2

\* Swap ids the backend hands out.
SwapIds == {1, 2}

\* No polling set up.
NoInterval ==
    [state |-> "unset", timeout |-> "unset", swapId |-> 0, elapsed |-> 0,
     due |-> 0, inflight |-> 0, started |-> 0, last |-> "none",
     server |-> "PENDING"]

\* initiateUsdcToXmrSwap not called.
NoFlow == [status |-> "idle", pc |-> 0, swapId |-> 0, log |-> << >>]

\* The browser before any script function has run.
InitFrontend ==
    /\ exchangeRateCache = EmptyCache
    /\ rateCall = [c \in RateCallers |-> NoRateCall]
    /\ rateEnv = [script |-> "swap.js", clock |-> 0, fetches |-> 0, calls |-> 0]
    /\ statusInterval = NoInterval
    /\ flow = NoFlow

\* Nothing loaded, converted or asked of the backend yet.
InitConfig ==
    /\ loaded = NoLoad
    /\ converted = NoParams
    /\ view = NoView

\* The client side, the node and the ledger before anything has happened.
InitClient ==
    /\ escrowClient = NilPtr
    /\ ctor = NilPtr
    /\ pc = [p \in Procs |-> "idle"]
    /\ call = [p \in Procs |-> NoCall]
    /\ nonce = [p \in Procs |-> -1]
    /\ auth = [p \in Procs |-> NoAuth]
    /\ escrowAddress = [p \in Procs |-> ZeroAddress]
    /\ reads = [p \in Procs |-> NoReads]
    /\ ret = [p \in Procs |-> NoRet]
    /\ calls = 0
    /\ ctx = [p \in Procs |-> CtxLive]
    /\ accountNonce = 0
    /\ mempool = << >>
    /\ escrowState = [a \in EscrowAddrs |-> "Uninitialized"]
    /\ receipt = NoReceipt
    /\ now = 1

Init ==
    /\ InitClient
    /\ InitConfig
    /\ InitFrontend
    /\ env = NoEnv
    /\ swap = NoSwap

\* --------------------------------------------------------- construction
\* A caller constructs the client directly.
Construct ==
    /\ escrowClient = NilPtr
    /\ \E in \in CtorInputs :
         LET r == NewXMREscrowClient(in.client, in.swapCreator, in.factoryAddress,
                                     in.adapterAddress, in.privateKey)
         IN  /\ ctor' = [in |-> in, out |-> r]
             /\ escrowClient' = r.client
    /\ UNCHANGED << clientVars, nodeVars, ledgerVars, configVars >>

\* The backend constructs the client through InitializeEscrowClient.
Initialize ==
    /\ escrowClient = NilPtr
    /\ \E in \in CtorInputs :
         LET r == InitializeEscrowClient(
                      [Raw |-> in.client, PrivateKey |-> in.privateKey],
                      in.swapCreator, in.factoryAddress, in.adapterAddress)
         IN  /\ ctor' = [in |-> in, out |-> r]
             /\ escrowClient' = r.client
    /\ UNCHANGED << clientVars, nodeVars, ledgerVars, configVars >>

\* ------------------------------------------------------------ the node
\* PendingNonceAt: the next nonce the node expects from the key.
PendingNonce == accountNonce + Len(mempool)

\* SendTransaction: the node's answer to a signed transaction.
NodeAccepts(tx) ==
    IF tx.nonce < accountNonce THEN ErrNonceTooLow
    ELSE IF tx.nonce < PendingNonce THEN ErrReplaceUnderpriced
    ELSE Nil

\* ------------------------------------------------------------ getAuth
\* getAuth handing out the nonce of the key's first transaction again.
getAuthCached(n, gasPrice) ==
    [Nonce |-> 0, Value |-> 0, GasLimit |-> GasLimit, GasPrice |-> gasPrice]

\* getAuth counting one past the nonce the node reported.
getAuthSkipping(n, gasPrice) ==
    [Nonce |-> n + 1, Value |-> 0, GasLimit |-> GasLimit, GasPrice |-> gasPrice]

\* getAuth leaving the gas limit at zero, which has the binding estimate
\* the gas of every transaction.
getAuthEstimating(n, gasPrice) ==
    [Nonce |-> n, Value |-> 0, GasLimit |-> 0, GasPrice |-> gasPrice]

\* The TransactOpts getAuth assembles after its three reads.
getAuth(n, gasPrice) ==
    [Nonce |-> n, Value |-> 0, GasLimit |-> GasLimit, GasPrice |-> gasPrice]

\* CreateSwap attaching params.Value whatever the asset.
CreateSwapAuthAnyAsset(a, params) == [a EXCEPT !.Value = params.Value]

\* CreateSwap: "Set the value for ETH swaps".
CreateSwapAuth(a, params) ==
    IF params.Asset = ZeroAddress THEN [a EXCEPT !.Value = params.Value] ELSE a

\* calculateEscrowAddress packing the timeouts shifted by the ledger time
\* elapsed since the terms were drawn up.
PackCalculateEscrowAddressShifted(c, params) ==
    << c.adapterAddress, params.Claimer, params.ClaimCommitment,
       params.RefundCommitment, params.Timeout1 + now - 1,
       params.Timeout2 + now - 1, params.Asset, params.Value >>

\* Arguments packed for the factory's calculateEscrowAddress.
PackCalculateEscrowAddress(c, params) ==
    << c.adapterAddress, params.Claimer, params.ClaimCommitment,
       params.RefundCommitment, params.Timeout1, params.Timeout2,
       params.Asset, params.Value >>

\* The address-resolution call addressed to the adapter instead of the
\* factory.
CalculateEscrowAddressMsgToAdapter(c, params) ==
    [To |-> c.adapterAddress, Data |-> PackCalculateEscrowAddress(c, params)]

\* callMsg := ethereum.CallMsg{To: &c.factoryAddress, Data: data}
CalculateEscrowAddressMsg(c, params) ==
    [To |-> c.factoryAddress, Data |-> PackCalculateEscrowAddress(c, params)]

\* What a call returns that no contract function answered.
NoData == "0x"

\* CallContract with a calculateEscrowAddress message: the factory's
\* answer when the message goes to the factory, no data otherwise.
CallContract(msg) ==
    IF msg.To = FactoryAddr
    THEN FactoryCalculateEscrowAddress(msg.Data)
    ELSE NoData

\* CreateSwap packing the deadlines of the deposit anew at every call, from
\* the ledger time of the call.
PackDepositShifted(c, params) ==
    << c.adapterAddress, params.Claimer, params.ClaimCommitment,
       params.RefundCommitment, params.Timeout1 + now - 1,
       params.Timeout2 + now - 1, params.Asset, params.Value >>

\* Arguments packed for the factory's deposit.
PackDeposit(c, params) ==
    << c.adapterAddress, params.Claimer, params.ClaimCommitment,
       params.RefundCommitment, params.Timeout1, params.Timeout2,
       params.Asset, params.Value >>

\* The transaction an invocation signs and hands to the node.
BuildTx(c, cl, a) ==
    CASE cl.op = "CreateSwap" ->
           [nonce |-> a.Nonce, to |-> c.factoryAddress, method |-> "deposit",
            args |-> PackDeposit(c, cl.params), value |-> a.Value,
            gasLimit |-> a.GasLimit, gasPrice |-> a.GasPrice]
      [] cl.op = "ClaimSwap" ->
           [nonce |-> a.Nonce, to |-> cl.escrowAddress, method |-> "withdraw",
            args |-> << cl.secret >>, value |-> a.Value,
            gasLimit |-> a.GasLimit, gasPrice |-> a.GasPrice]
      [] cl.op = "RefundSwap" ->
           [nonce |-> a.Nonce, to |-> cl.escrowAddress, method |-> "refund",
            args |-> << cl.refundKey >>, value |-> a.Value,
            gasLimit |-> a.GasLimit, gasPrice |-> a.GasPrice]

\* First remote call of an operation.
FirstStep(op) == IF op = "GetSwapState" THEN "getState" ELSE "PendingNonceAt"

\* An invocation that starts over when a remote call returned an error.
OnErrorRetry(op, step) == FirstStep(op)

\* Where an invocation goes when a remote call returned an error: every
\* `if err != nil` of the client returns to the caller.
OnError(op, step) == "done"

\* Where getAuth's caller continues once the signing context is built.
AfterAuth(op) == IF op = "CreateSwap" THEN "calculateEscrowAddress" ELSE "Transact"

Count(p, kind) == [reads EXCEPT ![p][kind] = @ + 1]

\* An error return that wraps the error of the remote call in a message.
FailWrapped(p, step, e) ==
    /\ pc' = [pc EXCEPT ![p] = OnError(call[p].op, step)]
    /\ ret' = [ret EXCEPT ![p] = [NoRet EXCEPT !.err = "failed to get auth"]]

\* An error return that hands back the address resolved so far along with
\* the error.
FailKeepingAddress(p, step, e) ==
    /\ pc' = [pc EXCEPT ![p] = OnError(call[p].op, step)]
    /\ ret' = [ret EXCEPT ![p] =
                 [NoRet EXCEPT !.err = e, !.addr = escrowAddress[p]]]

\* `return nil, err`: the error of the remote call goes to the caller as
\* it is, with zero values for everything else.
Fail(p, step, e) ==
    /\ pc' = [pc EXCEPT ![p] = OnError(call[p].op, step)]
    /\ ret' = [ret EXCEPT ![p] = [NoRet EXCEPT !.err = e]]

\* ------------------------------------------------------- invocations
Invocations ==
    [op : {"CreateSwap"}, params : ParamsSet]
      \cup [op : {"ClaimSwap"}, escrowAddress : Targets, secret : Bytes32]
      \cup [op : {"RefundSwap"}, escrowAddress : Targets, refundKey : Bytes32]
      \cup [op : {"GetSwapState"}, escrowAddress : Targets \cup {ForeignAddr}]

\* The invocations two callers make at once: as above, with well-formed
\* terms only.
ConcurrentInvocations ==
    {cl \in Invocations : cl.op = "CreateSwap" => WellFormed(cl.params)}

\* A caller invokes one of the given operations on the client. The
\* invocation slots are interchangeable, so a new invocation takes the
\* first free one.
InvokeFrom(p, limit, invocations) ==
    /\ escrowClient # NilPtr
    /\ pc[p] = "idle"
    /\ p = "p2" => pc["p1"] # "idle"
    /\ calls < limit
    /\ \E cl \in invocations :
         /\ call' = [call EXCEPT ![p] = cl]
         /\ pc' = [pc EXCEPT ![p] = FirstStep(cl.op)]
    /\ calls' = calls + 1
    /\ nonce' = [nonce EXCEPT ![p] = -1]
    /\ auth' = [auth EXCEPT ![p] = NoAuth]
    /\ escrowAddress' = [escrowAddress EXCEPT ![p] = ZeroAddress]
    /\ reads' = [reads EXCEPT ![p] = NoReads]
    /\ ret' = [ret EXCEPT ![p] = NoRet]
    /\ ctx' = [ctx EXCEPT ![p] = CtxLive]
    /\ UNCHANGED << escrowClient, ctor, nodeVars, ledgerVars, configVars >>

Invoke(p, limit) == InvokeFrom(p, limit, Invocations)

\* getAuth: nonce, err := c.client.PendingNonceAt(...)
PendingNonceAt(p) ==
    /\ pc[p] = "PendingNonceAt"
    /\ IF ctx[p] = CtxDone
       THEN /\ Fail(p, "PendingNonceAt", ErrContextCanceled)
            /\ UNCHANGED << nonce, reads >>
       ELSE /\ reads' = Count(p, "PendingNonceAt")
            /\ \/ /\ nonce' = [nonce EXCEPT ![p] = PendingNonce]
                  /\ pc' = [pc EXCEPT ![p] = "SuggestGasPrice"]
                  /\ UNCHANGED ret
               \/ /\ Fail(p, "PendingNonceAt", RPCError)
                  /\ UNCHANGED nonce
    /\ UNCHANGED << configVars, ctx, escrowClient, ctor, call, auth, escrowAddress, calls,
                    nodeVars, ledgerVars >>

\* getAuth: gasPrice, err := c.client.SuggestGasPrice(ctx)
SuggestGasPrice(p) ==
    /\ pc[p] = "SuggestGasPrice"
    /\ IF ctx[p] = CtxDone
       THEN /\ Fail(p, "SuggestGasPrice", ErrContextCanceled)
            /\ UNCHANGED reads
       ELSE /\ reads' = Count(p, "SuggestGasPrice")
            /\ \/ /\ pc' = [pc EXCEPT ![p] = "ChainID"]
                  /\ UNCHANGED ret
               \/ Fail(p, "SuggestGasPrice", RPCError)
    /\ UNCHANGED << configVars, ctx, escrowClient, ctor, call, nonce, auth, escrowAddress, calls,
                    nodeVars, ledgerVars >>

\* getAuth: chainID, err := c.client.ChainID(ctx), then the signer and the
\* TransactOpts; back in the caller, CreateSwap's value override.
ChainID(p) ==
    /\ pc[p] = "ChainID"
    /\ IF ctx[p] = CtxDone
       THEN /\ Fail(p, "ChainID", ErrContextCanceled)
            /\ UNCHANGED << auth, reads >>
       ELSE /\ reads' = Count(p, "ChainID")
            /\ \/ /\ auth' = [auth EXCEPT ![p] =
                              IF call[p].op = "CreateSwap"
                              THEN CreateSwapAuth(
                                       getAuth(nonce[p], NodeInfo.gasPrice),
                                       call[p].params)
                              ELSE getAuth(nonce[p], NodeInfo.gasPrice)]
                  /\ pc' = [pc EXCEPT ![p] = AfterAuth(call[p].op)]
                  /\ UNCHANGED ret
               \/ /\ Fail(p, "ChainID", RPCError)
                  /\ UNCHANGED auth
    /\ UNCHANGED << configVars, ctx, escrowClient, ctor, call, nonce, escrowAddress, calls,
                    nodeVars, ledgerVars >>

\* calculateEscrowAddress sending the factory call as a transaction
\* signed with the invocation's auth.
calculateEscrowAddressAsTransaction(p) ==
    /\ pc[p] = "calculateEscrowAddress"
    /\ reads' = Count(p, "CallContract")
    /\ mempool' = Append(mempool, BuildTx(escrowClient, call[p], auth[p]))
    /\ escrowAddress' = [escrowAddress EXCEPT ![p] =
            FactoryCalculateEscrowAddress(
                PackCalculateEscrowAddress(escrowClient, call[p].params))]
    /\ pc' = [pc EXCEPT ![p] = "Transact"]
    /\ UNCHANGED << configVars, ctx, escrowClient, ctor, call, nonce, auth, calls,
                    ret, accountNonce, ledgerVars >>

\* CreateSwap handing the deposit to the node before the address is
\* resolved, so that a resolution that fails comes after the broadcast.
calculateEscrowAddressAfterDeposit(p) ==
    /\ pc[p] = "calculateEscrowAddress"
    /\ reads' = Count(p, "CallContract")
    /\ mempool' = Append(mempool, BuildTx(escrowClient, call[p], auth[p]))
    /\ \/ LET result == CallContract(
                            CalculateEscrowAddressMsg(escrowClient,
                                                      call[p].params))
          IN  /\ result # NoData
              /\ escrowAddress' = [escrowAddress EXCEPT ![p] = result]
              /\ pc' = [pc EXCEPT ![p] = "Transact"]
              /\ UNCHANGED ret
       \/ /\ \E e \in {RPCError, DecodeError} :
                Fail(p, "calculateEscrowAddress", e)
          /\ UNCHANGED escrowAddress
    /\ UNCHANGED << configVars, ctx, escrowClient, ctor, call, nonce, auth, calls,
                    accountNonce, ledgerVars >>

\* calculateEscrowAddress: pack, CallContract against the factory, unpack.
calculateEscrowAddress(p) ==
    /\ pc[p] = "calculateEscrowAddress"
    /\ IF ctx[p] = CtxDone
       THEN /\ Fail(p, "calculateEscrowAddress", ErrContextCanceled)
            /\ UNCHANGED << escrowAddress, reads >>
       ELSE /\ reads' = Count(p, "CallContract")
            /\ \/ LET result == CallContract(
                                    CalculateEscrowAddressMsg(escrowClient,
                                                              call[p].params))
                  IN  /\ result # NoData
                      /\ escrowAddress' = [escrowAddress EXCEPT ![p] = result]
                      /\ pc' = [pc EXCEPT ![p] = "Transact"]
                      /\ UNCHANGED ret
               \/ /\ \E e \in {RPCError, DecodeError} :
                        Fail(p, "calculateEscrowAddress", e)
                  /\ UNCHANGED escrowAddress
    /\ UNCHANGED << configVars, ctx, escrowClient, ctor, call, nonce, auth, calls,
                    nodeVars, ledgerVars >>

\* Transact taking the transition the transaction asks for as done once
\* the node has accepted the broadcast.
TransactOptimistic(p) ==
    /\ pc[p] = "Transact"
    /\ reads' = Count(p, "SendTransaction")
    /\ LET tx == BuildTx(escrowClient, call[p], auth[p])
       IN  \/ /\ NodeAccepts(tx) = Nil
              /\ mempool' = Append(mempool, tx)
              /\ escrowState' = Execute(tx, escrowState, now, TRUE).escrows
              /\ pc' = [pc EXCEPT ![p] = "done"]
              /\ ret' = [ret EXCEPT ![p] =
                           [NoRet EXCEPT !.tx = tx, !.addr = escrowAddress[p]]]
           \/ /\ NodeAccepts(tx) # Nil
              /\ Fail(p, "Transact", NodeAccepts(tx))
              /\ UNCHANGED << mempool, escrowState >>
    /\ UNCHANGED << configVars, ctx, escrowClient, ctor, call, nonce, auth,
                    escrowAddress, calls, accountNonce, receipt, now >>

\* contract.Transact(auth, method, args...): gas limit, gas price and nonce
\* are all preset in auth, so the binding signs and sends without any
\* further read or simulation. getAuth leaves auth.Context unset, so the
\* binding sends under a background context: ctx plays no part here.
Transact(p) ==
    /\ pc[p] = "Transact"
    /\ reads' = Count(p, "SendTransaction")
    /\ LET tx == BuildTx(escrowClient, call[p], auth[p])
       IN  \/ /\ NodeAccepts(tx) = Nil
              /\ mempool' = Append(mempool, tx)
              /\ pc' = [pc EXCEPT ![p] = "done"]
              /\ ret' = [ret EXCEPT ![p] =
                           [NoRet EXCEPT !.tx = tx, !.addr = escrowAddress[p]]]
           \/ /\ NodeAccepts(tx) # Nil
              /\ Fail(p, "Transact", NodeAccepts(tx))
              /\ UNCHANGED mempool
           \/ /\ Fail(p, "Transact", RPCError)
              /\ UNCHANGED mempool
           \* the request reached the node, which pooled the transaction,
           \* and the answer never came back: SendTransaction returns the
           \* transport's error all the same
           \/ /\ NodeAccepts(tx) = Nil
              /\ mempool' = Append(mempool, tx)
              /\ Fail(p, "Transact", RPCError)
    /\ UNCHANGED << configVars, ctx, escrowClient, ctor, call, nonce, auth, escrowAddress, calls,
                    accountNonce, ledgerVars >>

\* What getState() of the escrow at addr answers: its state code, or no
\* data at all while nothing is deployed at the address.
GetStateAnswers(addr) ==
    IF addr = ForeignAddr
    THEN {[state |-> UnknownCode, err |-> Nil]}
    ELSE IF escrowState[addr] = "Uninitialized"
    THEN {[state |-> StateCode[escrowState[addr]], err |-> Nil],
          [state |-> 0, err |-> DecodeError]}
    ELSE {[state |-> StateCode[escrowState[addr]], err |-> Nil]}

\* GetSwapState: pack, CallContract against the escrow, unpack a uint8.
GetSwapState(p) ==
    /\ pc[p] = "getState"
    /\ pc' = [pc EXCEPT ![p] = "done"]
    /\ IF ctx[p] = CtxDone
       THEN /\ ret' = [ret EXCEPT ![p] = [NoRet EXCEPT !.err = ErrContextCanceled]]
            /\ UNCHANGED reads
       ELSE /\ reads' = Count(p, "CallContract")
            /\ \/ \E a \in GetStateAnswers(call[p].escrowAddress) :
                    ret' = [ret EXCEPT ![p] =
                              [NoRet EXCEPT !.state = a.state, !.err = a.err]]
               \/ ret' = [ret EXCEPT ![p] = [NoRet EXCEPT !.err = RPCError]]
    /\ UNCHANGED << configVars, ctx, escrowClient, ctor, call, nonce, auth, escrowAddress, calls,
                    nodeVars, ledgerVars >>

\* The caller takes the returned values; the invocation is over.
Return(p) ==
    /\ pc[p] = "done"
    /\ pc' = [pc EXCEPT ![p] = "idle"]
    /\ call' = [call EXCEPT ![p] = NoCall]
    /\ nonce' = [nonce EXCEPT ![p] = -1]
    /\ auth' = [auth EXCEPT ![p] = NoAuth]
    /\ escrowAddress' = [escrowAddress EXCEPT ![p] = ZeroAddress]
    /\ reads' = [reads EXCEPT ![p] = NoReads]
    /\ ret' = [ret EXCEPT ![p] = NoRet]
    /\ ctx' = [ctx EXCEPT ![p] = CtxLive]
    /\ UNCHANGED << escrowClient, ctor, calls, nodeVars, ledgerVars, configVars >>

\* ------------------------------------------------------------ the ledger
\* The ledger includes the oldest pending transaction and executes it.
Mine ==
    /\ mempool # << >>
    /\ \E funded \in BOOLEAN :
         LET tx == Head(mempool)
             r == Execute(tx, escrowState, now, funded)
         IN  /\ escrowState' = r.escrows
             /\ receipt' = r.status
    /\ mempool' = Tail(mempool)
    /\ accountNonce' = accountNonce + 1
    /\ UNCHANGED << escrowClient, ctor, clientVars, now, configVars >>

\* Time passes on the ledger.
Tick ==
    /\ now < MaxTime
    /\ now' = now + 1
    /\ UNCHANGED << escrowClient, ctor, clientVars, nodeVars, escrowState, receipt,
                    configVars >>

\* The caller's deadline passes, or the caller cancels, while the
\* invocation in slot p is under way.
Cancel(p) ==
    /\ pc[p] \notin {"idle", "done"}
    /\ ctx[p] = CtxLive
    /\ ctx' = [ctx EXCEPT ![p] = CtxDone]
    /\ UNCHANGED << escrowClient, ctor, pc, call, nonce, auth, escrowAddress,
                    reads, ret, calls, nodeVars, ledgerVars, configVars >>

\* One step of the invocation in slot p.
Step(p) ==
    \/ PendingNonceAt(p)
    \/ SuggestGasPrice(p)
    \/ ChainID(p)
    \/ calculateEscrowAddress(p)
    \/ Transact(p)
    \/ GetSwapState(p)
    \/ Return(p)

\* One caller: every invocation returns before the next one starts.
Next ==
    \/ Construct
    \/ Initialize
    \/ Invoke("p1", MaxCalls)
    \/ Step("p1")
    \/ Mine
    \/ Tick

Spec == Init /\ [][Next]_vars

\* Two callers share the client: their invocations interleave at every
\* remote call.
NextConcurrent ==
    \/ Construct
    \/ Initialize
    \/ \E p \in Procs : InvokeFrom(p, MaxConcurrentCalls, ConcurrentInvocations)
    \/ \E p \in Procs : Step(p)
    \/ Mine
    \/ Tick

SpecConcurrent == Init /\ [][NextConcurrent]_vars

\* One caller whose contexts may expire while a call is under way.
NextDeadline ==
    \/ Construct
    \/ Initialize
    \/ Invoke("p1", MaxDeadlineCalls)
    \/ Step("p1")
    \/ Cancel("p1")
    \/ Mine
    \/ Tick

SpecDeadline == Init /\ [][NextDeadline]_vars

\* ------------------------------------------------------ the address loaders
\* A caller loads the addresses with the strict loader.
LoadFromEnv ==
    /\ loaded' = [fn |-> "GetEscrowAddressesFromEnv",
                  out |-> GetEscrowAddressesFromEnv(env)]
    /\ UNCHANGED << escrowClient, ctor, clientVars, nodeVars, ledgerVars,
                    env, swap, converted, view, frontendVars >>

\* A caller loads the addresses with the loader that falls back.
LoadWithFallback ==
    /\ loaded' = [fn |-> "GetEscrowAddressesWithFallback",
                  out |-> GetEscrowAddressesWithFallback(env)]
    /\ UNCHANGED << escrowClient, ctor, clientVars, nodeVars, ledgerVars,
                    env, swap, converted, view, frontendVars >>

InitLoader ==
    /\ InitClient
    /\ InitConfig
    /\ InitFrontend
    /\ env \in Envs
    /\ swap = NoSwap

NextLoader ==
    \/ LoadFromEnv
    \/ LoadWithFallback

SpecLoader == InitLoader /\ [][NextLoader]_vars

\* ------------------------------------------------------- the conversion
\* A caller converts the swap record at hand.
Convert ==
    /\ converted' = ConvertSwapCreatorSwapToParams(swap)
    /\ UNCHANGED << escrowClient, ctor, clientVars, nodeVars, ledgerVars,
                    env, loaded, swap, view, frontendVars >>

InitConvert ==
    /\ InitClient
    /\ InitConfig
    /\ InitFrontend
    /\ env = NoEnv
    /\ swap \in SwapRecords

NextConvert == Convert

SpecConvert == InitConvert /\ [][NextConvert]_vars

\* ----------------------------------------------------------- the backend
\* The daemon starts its backend: the addresses come from the loader that
\* falls back, and the client InitializeEscrowClient returns (nil when it
\* returned an error) becomes the backend's escrowClient field.
InitializeFromEnv ==
    /\ escrowClient = NilPtr
    /\ ctor = NilPtr
    /\ LET a == GetEscrowAddressesWithFallback(env)
           in == [client |-> Present, swapCreator |-> Present,
                  privateKey |-> Present,
                  factoryAddress |-> DeployedAt(a.factoryAddr, FactoryAddr),
                  adapterAddress |-> DeployedAt(a.adapterAddr, AdapterAddr)]
           r == InitializeEscrowClient(
                    [Raw |-> in.client, PrivateKey |-> in.privateKey],
                    in.swapCreator, in.factoryAddress, in.adapterAddress)
       IN  /\ ctor' = [in |-> in, out |-> r]
           /\ escrowClient' = r.client
    /\ UNCHANGED << clientVars, nodeVars, ledgerVars, configVars >>

\* A user of the backend asks for the escrow client.
QueryBackend ==
    /\ view' = [of |-> escrowClient,
                has |-> HasEscrowClient(escrowClient),
                got |-> EscrowClient(escrowClient)]
    /\ UNCHANGED << escrowClient, ctor, clientVars, nodeVars, ledgerVars,
                    env, loaded, swap, converted, frontendVars >>

InitBackend ==
    /\ InitClient
    /\ InitConfig
    /\ InitFrontend
    /\ env \in Envs
    /\ swap = NoSwap

NextBackend ==
    \/ InitializeFromEnv
    \/ QueryBackend
    \/ Invoke("p1", MaxBackendCalls)
    \/ Step("p1")
    \/ Mine

SpecBackend == InitBackend /\ [][NextBackend]_vars

\* ===================================================================
\* Properties
\* ===================================================================
Done(p) == pc[p] = "done"
Accepted(p) == Done(p) /\ ret[p].tx # NilPtr

\* The inputs of a construction are complete: all five are there.
Complete(in) ==
    /\ in.client # Nil
    /\ in.swapCreator # Nil
    /\ in.privateKey # Nil
    /\ in.factoryAddress # ZeroAddress
    /\ in.adapterAddress # ZeroAddress

NativeValue(params) == IF params.Asset = ZeroAddress THEN params.Value ELSE 0

\* C7: every deposit transaction CreateSwap hands to the node carries
\* params.Value when the asset is the zero address and zero otherwise.
C7_DepositValue ==
    /\ \A p \in Procs :
         call[p].op = "CreateSwap" =>
           /\ pc[p] = "Transact" =>
                BuildTx(escrowClient, call[p], auth[p]).value
                  = NativeValue(call[p].params)
           /\ Accepted(p) => ret[p].tx.value = NativeValue(call[p].params)
    /\ \A i \in 1..Len(mempool) :
         mempool[i].method = "deposit" =>
           mempool[i].value
             = (IF mempool[i].args[7] = ZeroAddress THEN mempool[i].args[8] ELSE 0)

\* C7 witness: a native deposit is pending with its value attached, and a
\* token deposit has just been accepted with no value attached.
C7_Witness ==
    /\ \E i \in 1..Len(mempool) :
         /\ mempool[i].method = "deposit"
         /\ mempool[i].args[7] = ZeroAddress
         /\ mempool[i].value = mempool[i].args[8]
         /\ mempool[i].value > 0
    /\ \E p \in Procs :
         /\ call[p].op = "CreateSwap"
         /\ call[p].params.Asset = TokenAddr
         /\ Accepted(p)
         /\ ret[p].tx.value = 0

\* An invocation of CreateSwap that holds a resolved escrow address.
Resolved(p) == call[p].op = "CreateSwap" /\ escrowAddress[p] # ZeroAddress

C10_NoInternalRetry ==
    \A p \in Procs :
        /\ \A k \in DOMAIN NoReads : reads[p][k] <= 1
        /\ ret[p].err # Nil => Done(p) /\ ret[p].tx = NilPtr
        /\ (Done(p) /\ call[p].op # "GetSwapState" /\ ret[p].tx = NilPtr)
             => ret[p].err # Nil

\* C10 witness: a broadcast was rejected because its nonce was taken, and
\* the invocation ended with that error after one read and one broadcast.
C10_Witness ==
    \E p \in Procs :
        /\ Done(p)
        /\ ret[p].err = ErrReplaceUnderpriced
        /\ reads[p].PendingNonceAt = 1
        /\ reads[p].SendTransaction = 1

\* --------------------------------------------------------------------
\* Statements the client does not meet. ClaimSwap, RefundSwap and CreateSwap
\* return what the node answered to the broadcast; the contract's verdict
\* on the transaction exists only once the ledger has executed it.
\* --------------------------------------------------------------------
\* This step is the broadcast of the invocation in slot p, and the
\* transport did not fail: the call returns with the node's answer.
Broadcasts(p) == pc[p] = "Transact" /\ pc'[p] = "done" /\ ret'[p].err # RPCError

\* The state of the escrow the invocation in slot p addresses.
TargetState(p) == escrowState[call[p].escrowAddress]

GoodSecret(p) ==
    Keccak(call[p].secret) = ParamsAt(call[p].escrowAddress).ClaimCommitment
GoodRefundKey(p) ==
    Keccak(call[p].refundKey) = ParamsAt(call[p].escrowAddress).RefundCommitment

\* C1: Claimed and Refunded are terminal and exclude each other: no step
\* moves an escrow out of Claimed or Refunded, a RefundSwap on a Claimed
\* escrow fails with InvalidSwapState, and so does a ClaimSwap on a
\* Refunded escrow.
C1_TerminalStatesRejectCalls ==
    [][ /\ \A a \in EscrowAddrs :
             escrowState[a] \in {"Claimed", "Refunded"}
               => escrowState'[a] = escrowState[a]
        /\ \A p \in Procs :
             Broadcasts(p) =>
               /\ (call[p].op = "RefundSwap" /\ TargetState(p) = "Claimed")
                    => ret'[p].err = ErrInvalidSwapState
               /\ (call[p].op = "ClaimSwap" /\ TargetState(p) = "Refunded")
                    => ret'[p].err = ErrInvalidSwapState ]_vars

\* C2: a ClaimSwap on a Deposited escrow with a secret that does not hash
\* to the claim commitment fails, returning InvalidSecret to the caller,
\* and the escrow is still Deposited.
C2_WrongSecretReturnsInvalidSecret ==
    [][ \A p \in Procs :
          (/\ Broadcasts(p)
           /\ call[p].op = "ClaimSwap"
           /\ TargetState(p) = "Deposited"
           /\ ~GoodSecret(p))
            => /\ ret'[p].err = ErrInvalidSecret
               /\ escrowState' = escrowState ]_vars

\* C3: a RefundSwap made before the refund window has opened fails with
\* TimeoutNotReached, a ClaimSwap made after timeout1 has passed fails with
\* TimeoutExceeded, and the escrow state is unchanged in both cases.
C3_TimeoutsRejectCalls ==
    [][ \A p \in Procs :
          Broadcasts(p) =>
            /\ (/\ call[p].op = "RefundSwap"
                /\ TargetState(p) = "Deposited"
                /\ GoodRefundKey(p)
                /\ ~RefundOpen(ParamsAt(call[p].escrowAddress), now))
                 => /\ ret'[p].err = ErrTimeoutNotReached
                    /\ escrowState' = escrowState
            /\ (/\ call[p].op = "ClaimSwap"
                /\ TargetState(p) = "Deposited"
                /\ GoodSecret(p)
                /\ ~ClaimOpen(ParamsAt(call[p].escrowAddress), now))
                 => /\ ret'[p].err = ErrTimeoutExceeded
                    /\ escrowState' = escrowState ]_vars

\* The invocation in slot p has read the pending nonce and has not yet
\* handed its transaction to the node.
InSubmission(p) ==
    pc[p] \in {"SuggestGasPrice", "ChainID", "calculateEscrowAddress", "Transact"}

\* C4: the read-nonce-then-broadcast sections of two invocations on the
\* same client never overlap, so no broadcast is ever rejected because
\* another transaction of the key already carries its nonce.
C4_SubmissionSerialized ==
    /\ \A p, q \in Procs : p # q => ~(InSubmission(p) /\ InSubmission(q))
    /\ \A p \in Procs : ret[p].err \notin {ErrReplaceUnderpriced, ErrNonceTooLow}

\* C5: CreateSwap with malformed terms (timeout1 >= timeout2, value 0, zero
\* claimer) is rejected with a validation error before any remote call.
C5_ValidationFailsFast ==
    \A p \in Procs :
        (call[p].op = "CreateSwap" /\ ~WellFormed(call[p].params)) =>
          /\ reads[p] = NoReads
          /\ Done(p) => ret[p].err = ErrInvalidSwapParams /\ ret[p].tx = NilPtr

\* C8: the native-currency scenario: CreateSwap for native terms hands the
\* node a deposit with params.Value attached and returns the predicted
\* address; a ClaimSwap with the matching secret on the escrow once it is
\* Claimed fails with InvalidSwapState, and the escrow stays Claimed.
C8_NativeScenario ==
    [][ \A p \in Procs :
          Broadcasts(p) =>
            /\ (call[p].op = "CreateSwap" /\ call[p].params = NativeParams
                /\ ret'[p].err = Nil)
                 => /\ ret'[p].addr
                         = FactoryCalculateEscrowAddress(
                               FactoryArgs(escrowClient.adapterAddress, NativeParams))
                    /\ ret'[p].tx.value = NativeParams.Value
            /\ (/\ call[p].op = "ClaimSwap"
                /\ GoodSecret(p)
                /\ TargetState(p) = "Claimed")
                 => /\ ret'[p].err = ErrInvalidSwapState
                    /\ escrowState' = escrowState ]_vars

\* --------------------------------------------------------------------
\* The state query, broadcasts and the signing context
\* --------------------------------------------------------------------
\* The codes of the four lifecycle states.
KnownCodes == {StateCode[st] : st \in EscrowStates}

\* C11: GetSwapState hands the caller one of the four lifecycle states; a
\* code outside the known set comes back as a decode error, never as a
\* state.
C11_UnknownCodeIsDecodeError ==
    \A p \in Procs :
        (Done(p) /\ call[p].op = "GetSwapState") =>
          /\ ret[p].err = Nil => ret[p].state \in KnownCodes
          /\ call[p].escrowAddress = ForeignAddr => ret[p].err # Nil

\* This step hands the transaction of the invocation in slot p to the node
\* and the node takes it.
AcceptedBroadcast(p) ==
    pc[p] = "Transact" /\ pc'[p] = "done" /\ ret'[p].tx # NilPtr

\* C12: a call that returns a transaction has put it in the node's pending
\* pool and nothing more: nothing is included and no escrow changes state
\* in that step; an escrow changes state only in a step in which the
\* ledger includes a pending transaction, and no client call takes part in
\* that step.
C12_BroadcastOnly ==
    [][ /\ \A p \in Procs :
             AcceptedBroadcast(p) =>
               /\ mempool' = Append(mempool, ret'[p].tx)
               /\ accountNonce' = accountNonce
               /\ escrowState' = escrowState
               /\ receipt' = receipt
        /\ escrowState' # escrowState =>
             /\ mempool # << >>
             /\ mempool' = Tail(mempool)
             /\ accountNonce' = accountNonce + 1
             /\ clientVars' = clientVars ]_vars

\* C12 witness: CreateSwap has returned the deposit transaction, which is
\* pending, and the escrow it asks for does not exist yet.
C12_Witness ==
    /\ Accepted("p1")
    /\ call["p1"].op = "CreateSwap"
    /\ call["p1"].params = NativeParams
    /\ mempool = << ret["p1"].tx >>
    /\ escrowState[ret["p1"].addr] = "Uninitialized"

\* A value of the environment that is an address: the address's number of
\* hex digits, bare or behind "0x".
WellFormedEnvValue(s) ==
    \/ /\ Len(s) = AddrHexLen
       /\ \A i \in 1..Len(s) : s[i] \in HexDigits
    \/ /\ Len(s) = AddrHexLen + 2
       /\ s[1] = "0"
       /\ s[2] = "x"
       /\ \A i \in 3..Len(s) : s[i] \in HexDigits

\* The address such a value spells: its last digits.
AddressOfValue(s) ==
    [i \in 1..AddrHexLen |-> HexVal(s[Len(s) - AddrHexLen + i])]

\* Both variables of the environment are set and well-formed.
EnvWellFormed ==
    /\ WellFormedEnvValue(env.ESCROW_FACTORY_ADDRESS)
    /\ WellFormedEnvValue(env.ESCROW_ADAPTER_ADDRESS)

\* C13: GetEscrowAddressesFromEnv returns an error whenever one of the two
\* variables is unset or malformed and the two parsed addresses otherwise;
\* GetEscrowAddressesWithFallback returns no error at all, the zero
\* address (twice) wherever the strict loader fails and the parsed
\* addresses otherwise.
C13_AddressLoaders ==
    /\ loaded.fn = "GetEscrowAddressesFromEnv" =>
         /\ ~EnvWellFormed => loaded.out.err # Nil
         /\ EnvWellFormed =>
              loaded.out = [factoryAddr |-> AddressOfValue(env.ESCROW_FACTORY_ADDRESS),
                            adapterAddr |-> AddressOfValue(env.ESCROW_ADAPTER_ADDRESS),
                            err |-> Nil]
    /\ loaded.fn = "GetEscrowAddressesWithFallback" =>
         /\ DOMAIN loaded.out = {"factoryAddr", "adapterAddr"}
         /\ ~EnvWellFormed =>
              /\ loaded.out.factoryAddr = ZeroAddressBytes
              /\ loaded.out.adapterAddr = ZeroAddressBytes
         /\ EnvWellFormed =>
              /\ loaded.out.factoryAddr = AddressOfValue(env.ESCROW_FACTORY_ADDRESS)
              /\ loaded.out.adapterAddr = AddressOfValue(env.ESCROW_ADAPTER_ADDRESS)

\* C13 witness: the factory variable spells a non-zero address, the adapter
\* variable is set and malformed, and the fallback loader has returned the
\* zero address for both.
C13_Witness ==
    /\ loaded.fn = "GetEscrowAddressesWithFallback"
    /\ WellFormedEnvValue(env.ESCROW_FACTORY_ADDRESS)
    /\ AddressOfValue(env.ESCROW_FACTORY_ADDRESS) # ZeroAddressBytes
    /\ env.ESCROW_ADAPTER_ADDRESS # << >>
    /\ ~WellFormedEnvValue(env.ESCROW_ADAPTER_ADDRESS)
    /\ loaded.out.factoryAddr = ZeroAddressBytes
    /\ loaded.out.adapterAddr = ZeroAddressBytes

C15_ZeroAddressMeansUnavailable ==
    /\ ctor # NilPtr =>
         /\ (\/ ctor.in.factoryAddress = ZeroAddress
             \/ ctor.in.adapterAddress = ZeroAddress) => escrowClient = NilPtr
         /\ GetEscrowAddressesFromEnv(env).err # Nil => escrowClient = NilPtr
    /\ escrowClient = NilPtr =>
         /\ \A p \in Procs : pc[p] = "idle" /\ reads[p] = NoReads
         /\ calls = 0
         /\ mempool = << >>
         /\ accountNonce = 0
    /\ view # NoView =>
         /\ view.has = (view.got.client # NilPtr /\ view.got.err = Nil)
         /\ view.of = NilPtr => view.got.err # Nil
         /\ ~(view.got.client = NilPtr /\ view.got.err = Nil)
         /\ view.has => view.got.client = view.of

\* C15 witness: the adapter variable is not set, the backend was started
\* and has no client, and its accessors have answered false and an error.
C15_Witness ==
    /\ WellFormedEnvValue(env.ESCROW_FACTORY_ADDRESS)
    /\ env.ESCROW_ADAPTER_ADDRESS = << >>
    /\ ctor # NilPtr
    /\ ctor.in.factoryAddress = ZeroAddress
    /\ escrowClient = NilPtr
    /\ view # NoView
    /\ view.has = FALSE
    /\ view.got.client = NilPtr
    /\ view.got.err # Nil

\* C16: once the context of an invocation has expired or been cancelled,
\* the invocation makes no further remote call: no read and no broadcast.
C16_DeadlineHonored ==
    [][ \A p \in Procs :
          (ctx[p] = CtxDone /\ pc[p] \notin {"idle", "done"})
            => reads'[p] = reads[p] ]_vars

\* The operations that sign and broadcast.
WriteOps == {"CreateSwap", "ClaimSwap", "RefundSwap"}

\* Errors a read of the node ends with.
ReadErrors == {RPCError, ErrContextCanceled}

\* C17: getAuth reads the pending nonce, then the gas price, then the chain
\* id; when one of the reads fails the later ones are not made, there is
\* no signing context, the caller gets the read's error as it is and
\* nothing is broadcast.
C17_AuthReadsInOrder ==
    \A p \in Procs :
        call[p].op \in WriteOps =>
          /\ pc[p] = "PendingNonceAt" =>
               /\ reads[p].PendingNonceAt = 0
               /\ reads[p].SuggestGasPrice = 0
               /\ reads[p].ChainID = 0
          /\ pc[p] = "SuggestGasPrice" =>
               /\ reads[p].PendingNonceAt = 1
               /\ reads[p].SuggestGasPrice = 0
               /\ reads[p].ChainID = 0
          /\ pc[p] = "ChainID" =>
               /\ reads[p].PendingNonceAt = 1
               /\ reads[p].SuggestGasPrice = 1
               /\ reads[p].ChainID = 0
          /\ reads[p].SuggestGasPrice <= reads[p].PendingNonceAt
          /\ reads[p].ChainID <= reads[p].SuggestGasPrice
          /\ (auth[p] # NoAuth
                \/ reads[p].CallContract + reads[p].SendTransaction > 0) =>
               /\ reads[p].PendingNonceAt = 1
               /\ reads[p].SuggestGasPrice = 1
               /\ reads[p].ChainID = 1
          /\ (Done(p) /\ auth[p] = NoAuth) =>
               /\ ret[p].err \in ReadErrors
               /\ ret[p].tx = NilPtr
               /\ ret[p].addr = ZeroAddress
               /\ reads[p].CallContract = 0
               /\ reads[p].SendTransaction = 0

\* C17 witness: the gas-price read of a ClaimSwap failed; the chain id was
\* never read, nothing was signed or broadcast, and the caller has the
\* read's error.
C17_Witness ==
    \E p \in Procs :
        /\ Done(p)
        /\ call[p].op = "ClaimSwap"
        /\ reads[p] = [NoReads EXCEPT !.PendingNonceAt = 1, !.SuggestGasPrice = 1]
        /\ auth[p] = NoAuth
        /\ ret[p].err = RPCError
        /\ ret[p].tx = NilPtr
        /\ mempool = << >>

\* C18: nothing of a signing context outlives its invocation: an
\* invocation that has not yet read the node holds no nonce and no signing
\* context, and the one it signs with carries the nonce and the gas price
\* it read itself, which with one caller is the node's pending nonce at
\* the moment of the broadcast.
C18_SigningContextNotCached ==
    \A p \in Procs :
        /\ pc[p] \in {"idle", "PendingNonceAt"} => nonce[p] = -1 /\ auth[p] = NoAuth
        /\ pc[p] \in {"calculateEscrowAddress", "Transact"} =>
             /\ reads[p].PendingNonceAt = 1
             /\ reads[p].SuggestGasPrice = 1
             /\ auth[p].Nonce = nonce[p]
             /\ auth[p].GasPrice = NodeInfo.gasPrice
             /\ auth[p].Nonce = PendingNonce
        /\ Accepted(p) =>
             /\ reads[p].PendingNonceAt = 1
             /\ ret[p].tx.nonce = nonce[p]
             /\ ret[p].tx.gasPrice = NodeInfo.gasPrice

\* C18 witness: a second invocation is about to broadcast with the nonce
\* the node reported to it, which is not the first invocation's.
C18_Witness ==
    /\ pc["p1"] = "Transact"
    /\ calls = 2
    /\ accountNonce + Len(mempool) = 1
    /\ auth["p1"].Nonce = 1
    /\ reads["p1"].PendingNonceAt = 1

\* C19: with one caller, the transactions the node has accepted from the
\* key carry consecutive nonces: the pending ones continue the included
\* ones without a gap or a duplicate, and each newly accepted one is the
\* next.
C19_NoncesConsecutive ==
    /\ \A i \in 1..Len(mempool) : mempool[i].nonce = accountNonce + i - 1
    /\ \A p \in Procs :
         Accepted(p) => ret[p].tx.nonce = accountNonce + Len(mempool) - 1

\* C19 witness: three transactions were accepted in a row, one of them is
\* included and the other two are pending with nonces 1 and 2.
C19_Witness ==
    /\ accountNonce = 1
    /\ Len(mempool) = 2
    /\ mempool[1].nonce = 1
    /\ mempool[2].nonce = 2
    /\ Accepted("p1")
    /\ ret["p1"].tx.nonce = 2

\* This step is the remote call of calculateEscrowAddress or GetSwapState
\* in slot p.
ReadStep(p) ==
    pc[p] \in {"calculateEscrowAddress", "getState"} /\ pc'[p] # pc[p]

\* C20: the remote call of calculateEscrowAddress and of GetSwapState
\* sends and signs nothing: it leaves the key's pending nonce, the pending
\* pool, every escrow's state and the ledger as they are, and changes
\* nothing of any other invocation, whatever that one is doing.
C20_ReadsArePure ==
    [][ \A p \in Procs :
          ReadStep(p) =>
            /\ accountNonce' = accountNonce
            /\ mempool' = mempool
            /\ escrowState' = escrowState
            /\ receipt' = receipt
            /\ now' = now
            /\ escrowClient' = escrowClient
            /\ reads'[p].SendTransaction = reads[p].SendTransaction
            /\ auth'[p] = auth[p]
            /\ \A q \in Procs \ {p} :
                 /\ pc'[q] = pc[q]
                 /\ call'[q] = call[q]
                 /\ nonce'[q] = nonce[q]
                 /\ auth'[q] = auth[q]
                 /\ escrowAddress'[q] = escrowAddress[q]
                 /\ reads'[q] = reads[q]
                 /\ ret'[q] = ret[q] ]_vars

\* C20 witness: a GetSwapState has answered while another invocation was
\* between its nonce read and its broadcast, and that one still holds the
\* node's pending nonce.
C20_Witness ==
    /\ pc["p1"] = "Transact"
    /\ call["p1"].op = "CreateSwap"
    /\ escrowAddress["p1"] # ZeroAddress
    /\ Done("p2")
    /\ call["p2"].op = "GetSwapState"
    /\ ret["p2"].err = Nil
    /\ reads["p2"].CallContract = 1
    /\ auth["p1"].Nonce = PendingNonce
    /\ mempool = << >>

\* --------------------------------------------------------------------
\* Retries, gas and value, results and nonces of the write operations.
\* --------------------------------------------------------------------
\* The escrow address the factory derives from the terms of the CreateSwap
\* in slot p.
AddressOfTerms(p) ==
    FactoryCalculateEscrowAddress(
        FactoryArgs(escrowClient.adapterAddress, call[p].params))

\* This step includes the pending deposit at the head of the pool.
MinesDeposit ==
    /\ mempool # << >>
    /\ mempool' = Tail(mempool)
    /\ accountNonce' = accountNonce + 1
    /\ Head(mempool).method = "deposit"

\* C21: CreateSwap called again with the same terms resolves and returns
\* the same address, the address the factory derives from the terms, and
\* every deposit it hands to the node, the answer lost or not, asks for the
\* escrow at that address; an escrow becomes Deposited only from
\* Uninitialized, so at most once, and a deposit included when the escrow
\* of its terms exists already changes no escrow and is reverted with
\* SwapAlreadyExists.
C21_RetryIdempotent ==
    [][ /\ \A p \in Procs :
             (pc[p] = "Transact" /\ pc'[p] = "done"
                /\ call[p].op = "CreateSwap") =>
               /\ escrowAddress[p] = AddressOfTerms(p)
               /\ ret'[p].err = Nil => ret'[p].addr = AddressOfTerms(p)
               /\ mempool' # mempool =>
                    /\ mempool' = Append(mempool, mempool'[Len(mempool')])
                    /\ mempool'[Len(mempool')].method = "deposit"
                    /\ FactoryCalculateEscrowAddress(
                           mempool'[Len(mempool')].args) = AddressOfTerms(p)
        /\ \A a \in EscrowAddrs :
             (escrowState'[a] = "Deposited" /\ escrowState[a] # "Deposited")
               => escrowState[a] = "Uninitialized"
        /\ MinesDeposit =>
             LET a == FactoryCalculateEscrowAddress(Head(mempool).args)
             IN  (a \in EscrowAddrs /\ WellFormed(ParamsAt(a))
                    /\ escrowState[a] # "Uninitialized") =>
                   /\ escrowState' = escrowState
                   /\ receipt' = ErrSwapAlreadyExists ]_vars

\* C21 witness: the first deposit of the native terms was included and its
\* escrow is Deposited; CreateSwap was called again with the same terms,
\* returned the same address, and the second deposit was reverted with
\* SwapAlreadyExists.
C21_Witness ==
    /\ calls >= 2
    /\ Accepted("p1")
    /\ call["p1"].op = "CreateSwap"
    /\ call["p1"].params = NativeParams
    /\ ret["p1"].addr = EscrowAddrSeq[1]
    /\ ret["p1"].tx.nonce = 1
    /\ accountNonce = 2
    /\ receipt = ErrSwapAlreadyExists
    /\ escrowState[EscrowAddrSeq[1]] = "Deposited"

\* The transaction carries the fixed gas limit, and no value unless it is
\* the deposit of a zero-address asset.
FixedGasDefaultValue(tx) ==
    /\ tx.gasLimit = GasLimit
    /\ tx.method \in {"withdraw", "refund"} => tx.value = 0
    /\ (tx.method = "deposit" /\ tx.args[7] # ZeroAddress) => tx.value = 0

\* C22: every signing context getAuth hands out, every transaction an
\* invocation is about to send, every pending transaction and every
\* transaction returned carries the gas limit 300000, a set limit, which
\* keeps the binding from estimating; ClaimSwap and RefundSwap attach no
\* value, and a deposit attaches value only when its asset is the zero
\* address.
C22_FixedGasZeroValue ==
    /\ \A p \in Procs :
         /\ auth[p] # NoAuth =>
              /\ auth[p].GasLimit = GasLimit
              /\ auth[p].GasLimit # 0
              /\ call[p].op \in {"ClaimSwap", "RefundSwap"} => auth[p].Value = 0
              /\ auth[p].Value # 0 =>
                   /\ call[p].op = "CreateSwap"
                   /\ call[p].params.Asset = ZeroAddress
         /\ pc[p] = "Transact" =>
              FixedGasDefaultValue(BuildTx(escrowClient, call[p], auth[p]))
         /\ Accepted(p) => FixedGasDefaultValue(ret[p].tx)
    /\ \A i \in 1..Len(mempool) : FixedGasDefaultValue(mempool[i])

\* C22 witness: a native deposit with its value attached and a withdraw
\* with none are pending, both with the gas limit 300000.
C22_Witness ==
    /\ Len(mempool) = 2
    /\ mempool[1].method = "deposit"
    /\ mempool[1].value > 0
    /\ mempool[1].gasLimit = 300000
    /\ mempool[2].method = "withdraw"
    /\ mempool[2].value = 0
    /\ mempool[2].gasLimit = 300000
    /\ Accepted("p1")
    /\ call["p1"].op = "ClaimSwap"

\* --------------------------------------------------------------------
\* The address loaders, once more.
\* --------------------------------------------------------------------
\* The other spelling of a value: with the prefix taken off if it has one,
\* put on if it has none.
OtherSpelling(s) ==
    IF Len(s) >= 2 /\ s[1] = "0" /\ s[2] = "x"
    THEN SubSeq(s, 3, Len(s))
    ELSE << "0", "x" >> \o s

EnvNames == {"ESCROW_FACTORY_ADDRESS", "ESCROW_ADAPTER_ADDRESS"}

\* C23: the strict loader returns the address a well-formed value spells
\* whether the value carries the prefix or not: with either variable
\* respelled the other way the loader's result is the same; a value that
\* has the prefix is left as it is by the normalization; and a set value
\* that is no address, bare or prefixed, makes the loader return an error.
C23_PrefixNormalization ==
    loaded.fn = "GetEscrowAddressesFromEnv" =>
      /\ \A v \in EnvNames :
           /\ WellFormedEnvValue(env[v]) =>
                /\ GetEscrowAddressesFromEnv(
                       [env EXCEPT ![v] = OtherSpelling(env[v])]) = loaded.out
                /\ HexToAddress(EnsurePrefix(env[v])) = AddressOfValue(env[v])
                /\ HexToAddress(EnsurePrefix(OtherSpelling(env[v])))
                     = AddressOfValue(env[v])
           /\ (Len(env[v]) >= 2 /\ env[v][1] = "0" /\ env[v][2] = "x") =>
                EnsurePrefix(env[v]) = env[v]
           /\ ~WellFormedEnvValue(env[v]) => loaded.out.err # Nil
      /\ EnvWellFormed =>
           /\ loaded.out.err = Nil
           /\ loaded.out.factoryAddr = AddressOfValue(env.ESCROW_FACTORY_ADDRESS)
           /\ loaded.out.adapterAddr = AddressOfValue(env.ESCROW_ADAPTER_ADDRESS)

\* C23 witness: the factory's value is a bare address, the adapter's a
\* prefixed one, neither is zero, and the strict loader has returned both.
C23_Witness ==
    /\ loaded.fn = "GetEscrowAddressesFromEnv"
    /\ Len(env.ESCROW_FACTORY_ADDRESS) = AddrHexLen
    /\ Len(env.ESCROW_ADAPTER_ADDRESS) = AddrHexLen + 2
    /\ EnvWellFormed
    /\ loaded.out.err = Nil
    /\ loaded.out.factoryAddr # ZeroAddressBytes
    /\ loaded.out.adapterAddr # ZeroAddressBytes
    /\ loaded.out.adapterAddr
         = GetEscrowAddressesFromEnv(
               [env EXCEPT !.ESCROW_ADAPTER_ADDRESS =
                               OtherSpelling(env.ESCROW_ADAPTER_ADDRESS)]).adapterAddr

\* C27: what GetEscrowAddressesWithFallback returns is the pair of
\* addresses the two variables spell, or the zero address twice; it is the
\* zero address twice whenever one of the variables is unset or malformed,
\* however valid the other one is.
C27_BothOrNeither ==
    loaded.fn = "GetEscrowAddressesWithFallback" =>
      LET f == env.ESCROW_FACTORY_ADDRESS
          a == env.ESCROW_ADAPTER_ADDRESS
          zeros == [factoryAddr |-> ZeroAddressBytes,
                    adapterAddr |-> ZeroAddressBytes]
      IN  /\ \/ loaded.out = zeros
             \/ /\ WellFormedEnvValue(f)
                /\ WellFormedEnvValue(a)
                /\ loaded.out = [factoryAddr |-> AddressOfValue(f),
                                 adapterAddr |-> AddressOfValue(a)]
          /\ (WellFormedEnvValue(f) /\ ~WellFormedEnvValue(a)) =>
               loaded.out = zeros
          /\ (WellFormedEnvValue(a) /\ ~WellFormedEnvValue(f)) =>
               loaded.out = zeros

\* C27 witness: the adapter variable spells a non-zero address, the factory
\* variable is unset, and the fallback loader has returned the zero
\* address for the adapter too.
C27_Witness ==
    /\ loaded.fn = "GetEscrowAddressesWithFallback"
    /\ env.ESCROW_FACTORY_ADDRESS = << >>
    /\ WellFormedEnvValue(env.ESCROW_ADAPTER_ADDRESS)
    /\ AddressOfValue(env.ESCROW_ADAPTER_ADDRESS) # ZeroAddressBytes
    /\ loaded.out.adapterAddr = ZeroAddressBytes
    /\ loaded.out.factoryAddr = ZeroAddressBytes

\* --------------------------------------------------------------------
\* CreateSwap's result and the nonces of failed invocations.
\* --------------------------------------------------------------------
\* C24: CreateSwap builds its signing context before it resolves the
\* address and resolves the address before it sends the deposit; a deposit
\* is sent only after a resolution that succeeded; a CreateSwap that
\* returns an error, at whatever step, returns a nil transaction and the
\* zero address, and one that returns no error returns the transaction
\* together with the resolved address.
C24_AllOrNothing ==
    \A p \in Procs :
        call[p].op = "CreateSwap" =>
          /\ pc[p] = "calculateEscrowAddress" =>
               /\ auth[p] # NoAuth
               /\ reads[p].CallContract = 0
               /\ reads[p].SendTransaction = 0
          /\ pc[p] = "Transact" =>
               /\ auth[p] # NoAuth
               /\ reads[p].CallContract = 1
               /\ reads[p].SendTransaction = 0
          /\ reads[p].SendTransaction > 0 =>
               /\ reads[p].CallContract = 1
               /\ escrowAddress[p] # ZeroAddress
               /\ Done(p)
          /\ (reads[p].CallContract = 1 /\ escrowAddress[p] = ZeroAddress) =>
               /\ Done(p)
               /\ ret[p].err # Nil
               /\ reads[p].SendTransaction = 0
          /\ (Done(p) /\ ret[p].err # Nil) =>
               /\ ret[p].tx = NilPtr
               /\ ret[p].addr = ZeroAddress
          /\ (Done(p) /\ ret[p].err = Nil) =>
               /\ ret[p].tx # NilPtr
               /\ ret[p].addr = escrowAddress[p]
               /\ ret[p].addr # ZeroAddress

\* C24 witness: a CreateSwap resolved its address, its broadcast failed,
\* and it has returned the error with a nil transaction and the zero
\* address.
C24_Witness ==
    \E p \in Procs :
        /\ Done(p)
        /\ call[p].op = "CreateSwap"
        /\ escrowAddress[p] = EscrowAddrSeq[1]
        /\ reads[p].SendTransaction = 1
        /\ ret[p].err = RPCError
        /\ ret[p].tx = NilPtr
        /\ ret[p].addr = ZeroAddress

\* The eight values CreateSwap is to pass, in the order of the factory's
\* arguments.
ArgumentTuple(p) ==
    << escrowClient.adapterAddress, call[p].params.Claimer,
       call[p].params.ClaimCommitment, call[p].params.RefundCommitment,
       call[p].params.Timeout1, call[p].params.Timeout2,
       call[p].params.Asset, call[p].params.Value >>

\* C25: the resolution call a CreateSwap makes and the deposit it sends
\* carry the same eight values, the client's adapter address first, and
\* both go to the client's factory address; the address CreateSwap returns
\* is the one the factory derives from the deposit's arguments, and the
\* escrow a deposit creates when it is included is the one at that
\* address.
C25_SameArgumentsSameTarget ==
    [][ /\ \A p \in Procs :
             call[p].op = "CreateSwap" =>
               LET msg == CalculateEscrowAddressMsg(escrowClient, call[p].params)
                   tx == BuildTx(escrowClient, call[p], auth[p])
               IN  /\ (pc[p] = "calculateEscrowAddress" /\ pc'[p] # pc[p]) =>
                        /\ msg.Data = ArgumentTuple(p)
                        /\ msg.To = escrowClient.factoryAddress
                   /\ (pc[p] = "Transact" /\ pc'[p] = "done") =>
                        /\ tx.args = msg.Data
                        /\ tx.args = ArgumentTuple(p)
                        /\ tx.to = msg.To
                        /\ tx.to = escrowClient.factoryAddress
                        /\ mempool' # mempool => mempool' = Append(mempool, tx)
                        /\ ret'[p].err = Nil =>
                             /\ ret'[p].tx = tx
                             /\ ret'[p].addr
                                  = FactoryCalculateEscrowAddress(tx.args)
        /\ (MinesDeposit /\ escrowState' # escrowState) =>
             escrowState' =
               [escrowState EXCEPT
                  ![FactoryCalculateEscrowAddress(Head(mempool).args)] =
                      "Deposited"] ]_vars

\* C25 witness: CreateSwap returned the deposit and the address resolved
\* for the token terms, the deposit was included, and the escrow at the
\* returned address is Deposited.
C25_Witness ==
    /\ Accepted("p1")
    /\ call["p1"].op = "CreateSwap"
    /\ call["p1"].params = TokenParams
    /\ ret["p1"].tx.to = FactoryAddr
    /\ ret["p1"].addr = EscrowAddrSeq[2]
    /\ mempool = << >>
    /\ receipt = "success"
    /\ escrowState[ret["p1"].addr] = "Deposited"

\* This step ends the write invocation in slot p with an error.
FailsNow(p) ==
    /\ call[p].op \in WriteOps
    /\ pc[p] # "done"
    /\ pc'[p] = "done"
    /\ ret'[p].err # Nil

\* The write invocation in slot p has returned an error after it read the
\* key's pending nonce.
FailedAfterNonce(p) ==
    /\ Done(p)
    /\ call[p].op \in WriteOps
    /\ ret[p].err # Nil
    /\ nonce[p] >= 0

\* C26 as stated: the step in which CreateSwap, ClaimSwap or RefundSwap
\* returns an error, whichever remote call the error comes from, leaves the
\* key's pending nonce at the node as it was, and once the invocation has
\* returned the pending nonce is the one the invocation read, which the
\* next invocation reads again.
C26_FailedInvocationKeepsNonce ==
    [][ \A p \in Procs :
          /\ FailsNow(p) => PendingNonce' = PendingNonce
          /\ FailedAfterNonce(p) => PendingNonce = nonce[p] ]_vars

\* C26 amended: an error from getAuth or from address resolution, a
\* broadcast the node refuses and a broadcast that never reaches the node
\* leave the node as it was, and the next invocation reads the same nonce;
\* the one other case is a broadcast whose answer is lost after the node
\* has pooled the transaction: the call returns the transport's error, the
\* transaction is pending, and the pending nonce is one more than the
\* invocation read.
C26_FailedInvocationKeepsNonceUnlessPooled ==
    [][ \A p \in Procs :
          /\ FailsNow(p) =>
               \/ nodeVars' = nodeVars
               \/ /\ pc[p] = "Transact"
                  /\ ret'[p].err = RPCError
                  /\ mempool' = Append(mempool,
                                       BuildTx(escrowClient, call[p], auth[p]))
                  /\ accountNonce' = accountNonce
          /\ (FailsNow(p) /\ pc[p] # "Transact") => nodeVars' = nodeVars
          /\ (FailsNow(p) /\ ret'[p].err # RPCError) => nodeVars' = nodeVars
          /\ FailedAfterNonce(p) =>
               \/ PendingNonce = nonce[p]
               \/ /\ reads[p].SendTransaction = 1
                  /\ ret[p].err = RPCError
                  /\ PendingNonce = nonce[p] + 1 ]_vars

\* C26 witness: a ClaimSwap read the pending nonce 1, its broadcast failed
\* before the node had the transaction, and the pending nonce is still 1.
C26_Witness ==
    /\ FailedAfterNonce("p1")
    /\ call["p1"].op = "ClaimSwap"
    /\ reads["p1"].SendTransaction = 1
    /\ ret["p1"].err = RPCError
    /\ nonce["p1"] = 1
    /\ PendingNonce = 1

\* --------------------------------------------------------------------
\* The browser: fetchExchangeRate.
\* --------------------------------------------------------------------
\* exchangeRateCache.xmrToUsdc && now - exchangeRateCache.lastUpdated < 5 min
CacheFresh(cache, t) ==
    Truthy(cache.xmrToUsdc) /\ t - cache.lastUpdated < CacheTTL

\* fetch or response.json() rejects.
RequestFails(resp) == resp.kind \in {"networkError", "notJSON"}

\* swap.js: if (!data.monero || !data.monero.usd) throw
PriceMissing(resp) == ~resp.monero \/ ~Truthy(resp.usd)

\* constants-global.js: data.monero.usd throws only when data.monero is
\* undefined.
PriceUnreadable(resp) == ~resp.monero

\* Whether the try block of fetchExchangeRate ends in its catch.
Caught(script, resp) ==
    \/ RequestFails(resp)
    \/ script = "swap.js" /\ PriceMissing(resp)
    \/ script = "constants-global.js" /\ PriceUnreadable(resp)

\* return exchangeRateCache.xmrToUsdc || 150
Fallback(cache) ==
    IF Truthy(cache.xmrToUsdc) THEN cache.xmrToUsdc ELSE DefaultRate

\* fetchExchangeRate up to its first await: read the clock, return the
\* cached rate if it is fresh, send the price request otherwise.
fetchExchangeRate(c) ==
    /\ rateCall[c].pc = "idle"
    /\ rateEnv.calls < MaxRateCalls
    /\ IF CacheFresh(exchangeRateCache, rateEnv.clock)
       THEN /\ rateCall' = [rateCall EXCEPT ![c] =
                   [pc |-> "done", now |-> rateEnv.clock,
                    response |-> NoResponse,
                    result |-> exchangeRateCache.xmrToUsdc]]
            /\ rateEnv' = [rateEnv EXCEPT !.calls = @ + 1]
       ELSE /\ rateCall' = [rateCall EXCEPT ![c] =
                   [pc |-> "await", now |-> rateEnv.clock,
                    response |-> NoResponse, result |-> JsNull]]
            /\ rateEnv' = [rateEnv EXCEPT !.calls = @ + 1, !.fetches = @ + 1]
    /\ UNCHANGED << escrowClient, ctor, clientVars, nodeVars, ledgerVars,
                    env, loaded, swap, converted, view,
                    exchangeRateCache, statusInterval, flow >>

\* fetchExchangeRate from the price request's end on: the cache is written
\* and the fetched rate returned, or the catch returns the fallback.
fetchExchangeRateSettles(c) ==
    /\ rateCall[c].pc = "await"
    /\ \E resp \in PriceResponses :
         IF Caught(rateEnv.script, resp)
         THEN /\ UNCHANGED exchangeRateCache
              /\ rateCall' = [rateCall EXCEPT ![c].pc = "done",
                                              ![c].response = resp,
                                              ![c].result =
                                                  Fallback(exchangeRateCache)]
         ELSE /\ exchangeRateCache' =
                   [xmrToUsdc |-> resp.usd, lastUpdated |-> rateCall[c].now]
              /\ rateCall' = [rateCall EXCEPT ![c].pc = "done",
                                              ![c].response = resp,
                                              ![c].result = resp.usd]
    /\ UNCHANGED << escrowClient, ctor, clientVars, nodeVars, ledgerVars,
                    env, loaded, swap, converted, view,
                    rateEnv, statusInterval, flow >>

\* The caller takes the rate.
RateReturn(c) ==
    /\ rateCall[c].pc = "done"
    /\ rateCall' = [rateCall EXCEPT ![c] = NoRateCall]
    /\ UNCHANGED << escrowClient, ctor, clientVars, nodeVars, ledgerVars,
                    env, loaded, swap, converted, view,
                    exchangeRateCache, rateEnv, statusInterval, flow >>

\* A minute passes on the wall clock.
RateTick ==
    /\ rateEnv.clock < MaxRateClock
    /\ rateEnv' = [rateEnv EXCEPT !.clock = @ + 1]
    /\ UNCHANGED << escrowClient, ctor, clientVars, nodeVars, ledgerVars,
                    env, loaded, swap, converted, view,
                    exchangeRateCache, rateCall, statusInterval, flow >>

\* The page has loaded one of the two scripts.
InitRate ==
    /\ InitClient
    /\ InitConfig
    /\ env = NoEnv
    /\ swap = NoSwap
    /\ exchangeRateCache = EmptyCache
    /\ rateCall = [c \in RateCallers |-> NoRateCall]
    /\ \E script \in RateScripts :
         rateEnv = [script |-> script, clock |-> 0, fetches |-> 0, calls |-> 0]
    /\ statusInterval = NoInterval
    /\ flow = NoFlow

NextRate ==
    \/ \E c \in RateCallers : fetchExchangeRate(c)
    \/ \E c \in RateCallers : fetchExchangeRateSettles(c)
    \/ \E c \in RateCallers : RateReturn(c)
    \/ RateTick

SpecRate == InitRate /\ [][NextRate]_vars

\* A rate is in the cache.
RateCached == exchangeRateCache.xmrToUsdc \in Rates

\* The price request came back with a rate.
FetchSucceeded(resp) ==
    resp.kind = "json" /\ resp.monero /\ resp.usd \in Rates

\* C30: a call that finds a rate cached less than 5 minutes ago returns it
\* and makes no price request; any other call makes one; a request that
\* comes back with a rate leaves that rate in the cache with the time the
\* call read, and the call returns it; a request that does not leaves the
\* cache as it was, and the call returns the cached rate, or 150 if there
\* is none.
C30_RateCache ==
    [][ \A c \in RateCallers :
          /\ (rateCall[c].pc = "idle" /\ rateCall'[c].pc # "idle") =>
               IF RateCached
                  /\ rateEnv.clock - exchangeRateCache.lastUpdated < CacheTTL
               THEN /\ rateCall'[c].pc = "done"
                    /\ rateCall'[c].result = exchangeRateCache.xmrToUsdc
                    /\ rateEnv'.fetches = rateEnv.fetches
                    /\ exchangeRateCache' = exchangeRateCache
               ELSE /\ rateCall'[c].pc = "await"
                    /\ rateEnv'.fetches = rateEnv.fetches + 1
                    /\ exchangeRateCache' = exchangeRateCache
          /\ (rateCall[c].pc = "await" /\ rateCall'[c].pc = "done") =>
               IF FetchSucceeded(rateCall'[c].response)
               THEN /\ exchangeRateCache' =
                         [xmrToUsdc |-> rateCall'[c].response.usd,
                          lastUpdated |-> rateCall[c].now]
                    /\ rateCall'[c].result = rateCall'[c].response.usd
               ELSE /\ exchangeRateCache' = exchangeRateCache
                    /\ rateCall'[c].result =
                         (IF RateCached THEN exchangeRateCache.xmrToUsdc
                                        ELSE DefaultRate) ]_vars

\* --------------------------------------------------------------------
\* The browser: pollSwapStatus.
\* --------------------------------------------------------------------
\* Every frame of the polling's actions: all but statusInterval.
pollFrame ==
    << escrowClient, ctor, clientVars, nodeVars, ledgerVars,
       env, loaded, swap, converted, view, rateVars, flow >>

\* setInterval(..., 5000) and setTimeout(..., 10 * 60 * 1000): the polling
\* armed for a swap, its first poll due after one period.
Armed(si, swapId) ==
    [si EXCEPT !.state = "armed", !.timeout = "armed", !.swapId = swapId,
               !.elapsed = 0, !.due = 1]

\* What a poll gets back: the status held by the backend (COMPLETED only
\* once the swap is complete there, an earlier status possibly late), or
\* no usable response.
StatusResponses(server) ==
    {"PENDING", "error"} \cup (IF server = "COMPLETED" THEN {"COMPLETED"} ELSE {})

\* A poll handler that gives the polling up when a poll fails.
AfterPollStoppingOnError(state, response) ==
    IF response \in {"COMPLETED", "error"} THEN "cleared" ELSE state

\* The interval after a poll's response was handled: cleared on
\* COMPLETED, untouched otherwise, the catch included.
AfterPoll(state, response) ==
    IF response = "COMPLETED" THEN "cleared" ELSE state

\* pollSwapStatus(swapId)
pollSwapStatus ==
    /\ statusInterval.state = "unset"
    /\ \E id \in SwapIds : statusInterval' = Armed(statusInterval, id)
    /\ UNCHANGED pollFrame

\* The interval's timer fires: the callback starts a poll, which sends
\* its status request and waits.
IntervalFires ==
    /\ statusInterval.state = "armed"
    /\ statusInterval.due = statusInterval.elapsed
    /\ statusInterval' = [statusInterval EXCEPT !.inflight = @ + 1,
                                                !.started = @ + 1,
                                                !.due = @ + 1]
    /\ UNCHANGED pollFrame

\* The timeout's timer fires: clearInterval(statusInterval).
TimeoutFires ==
    /\ statusInterval.timeout = "armed"
    /\ statusInterval.elapsed = PollTimeoutTicks
    /\ statusInterval' = [statusInterval EXCEPT !.state = "cleared",
                                                !.timeout = "fired"]
    /\ UNCHANGED pollFrame

\* A poll's request ends and the callback goes on from its await.
PollSettles ==
    /\ statusInterval.inflight > 0
    /\ \E r \in StatusResponses(statusInterval.server) :
         statusInterval' =
           [statusInterval EXCEPT !.state = AfterPoll(@, r),
                                  !.inflight = @ - 1,
                                  !.last = r]
    /\ UNCHANGED pollFrame

\* The swap completes at the backend.
ServerCompletes ==
    /\ statusInterval.server = "PENDING"
    /\ statusInterval' = [statusInterval EXCEPT !.server = "COMPLETED"]
    /\ UNCHANGED pollFrame

\* A polling period passes; a timer that is due fires first.
PollTick ==
    /\ statusInterval.state # "unset"
    /\ statusInterval.elapsed < MaxPollTime
    /\ ~(statusInterval.state = "armed"
           /\ statusInterval.due = statusInterval.elapsed)
    /\ ~(statusInterval.timeout = "armed"
           /\ statusInterval.elapsed = PollTimeoutTicks)
    /\ statusInterval' = [statusInterval EXCEPT !.elapsed = @ + 1]
    /\ UNCHANGED pollFrame

NextPoll ==
    \/ pollSwapStatus
    \/ IntervalFires
    \/ TimeoutFires
    \/ PollSettles
    \/ ServerCompletes
    \/ PollTick

SpecPoll == Init /\ [][NextPoll]_vars

\* C29: a poll starts only while the interval is armed and no later than
\* the timeout's time after pollSwapStatus; the poll that observes
\* COMPLETED clears the interval in the same step; a poll that fails or
\* observes another status leaves the interval as it was; a cleared
\* interval stays cleared and starts no poll; and past the timeout's time
\* the interval is not armed.
C29_PollingTerminates ==
    [][ /\ statusInterval'.started > statusInterval.started =>
             /\ statusInterval.state = "armed"
             /\ statusInterval.elapsed <= PollTimeoutTicks
        /\ statusInterval'.inflight < statusInterval.inflight =>
             IF statusInterval'.last = "COMPLETED"
             THEN statusInterval'.state = "cleared"
             ELSE statusInterval'.state = statusInterval.state
        /\ statusInterval.state = "cleared" =>
             /\ statusInterval'.state = "cleared"
             /\ statusInterval'.started = statusInterval.started
        /\ statusInterval.elapsed > PollTimeoutTicks =>
             statusInterval.state = "cleared" ]_vars

\* C29 witness: two polls were started; one observed COMPLETED before the
\* timeout and cleared the interval, while the other was still waiting for
\* its response.
C29_Witness ==
    /\ statusInterval.state = "cleared"
    /\ statusInterval.timeout = "armed"
    /\ statusInterval.last = "COMPLETED"
    /\ statusInterval.started = 2
    /\ statusInterval.inflight = 1
    /\ statusInterval.elapsed < PollTimeoutTicks

\* --------------------------------------------------------------------
\* The browser: initiateUsdcToXmrSwap.
\* --------------------------------------------------------------------
\* The awaited steps of initiateUsdcToXmrSwap and its last call, in the
\* order of the function's text.
FlowSteps ==
    << "connectWallet", "prepare", "approve", "approveWait", "newSwap",
       "newSwapWait", "notifyCreated", "setReady", "setReadyWait",
       "notifyReady", "pollSwapStatus" >>

\* The steps that are requests to the backend.
BackendSteps == {"prepare", "notifyCreated", "notifyReady"}

\* How a step can end. A wallet or contract call resolves or rejects; a
\* request to the backend gets a 2xx response, no response, a body that
\* is no JSON, or an error status with a JSON body; pollSwapStatus only
\* sets timers.
FlowOutcomes(step) ==
    IF step \in BackendSteps
    THEN {"ok", "networkError", "notJSON", "httpError"}
    ELSE IF step = "pollSwapStatus" THEN {"ok"}
    ELSE {"ok", "rejected"}

\* Whether the step's outcome throws inside the try block. The response's
\* status is never looked at: an error status throws only where the body
\* is used, which is after prepare (prepareResult.swapParams.asset).
FlowThrows(step, outcome) ==
    \/ outcome \in {"rejected", "networkError", "notJSON"}
    \/ step = "prepare" /\ outcome = "httpError"

\* Every frame of the flow's own steps.
flowFrame ==
    << escrowClient, ctor, clientVars, nodeVars, ledgerVars,
       env, loaded, swap, converted, view, rateVars >>

\* The user starts a swap: initiateUsdcToXmrSwap(xmrAddress, usdcAmount).
initiateUsdcToXmrSwap ==
    /\ flow.status = "idle"
    /\ flow' = [flow EXCEPT !.status = "running", !.pc = 1]
    /\ UNCHANGED << flowFrame, statusInterval >>

\* The function runs its next step to that step's end.
FlowStep ==
    /\ flow.status = "running"
    /\ LET step == FlowSteps[flow.pc]
       IN  \E outcome \in FlowOutcomes(step), id \in SwapIds :
             /\ step # "prepare" => id = (IF flow.swapId = 0 THEN 1 ELSE flow.swapId)
             /\ flow' =
                  [status |-> IF FlowThrows(step, outcome) THEN "thrown"
                              ELSE IF flow.pc = Len(FlowSteps) THEN "returned"
                              ELSE "running",
                   pc |-> flow.pc + 1,
                   swapId |-> IF step = "prepare" /\ outcome = "ok"
                              THEN id ELSE flow.swapId,
                   log |-> Append(flow.log,
                                  [step |-> step, outcome |-> outcome])]
             /\ statusInterval' =
                  IF step = "pollSwapStatus"
                  THEN Armed(statusInterval, flow.swapId)
                  ELSE statusInterval
    /\ UNCHANGED flowFrame

NextFlow ==
    \/ initiateUsdcToXmrSwap
    \/ FlowStep
    \/ IntervalFires
    \/ TimeoutFires
    \/ PollSettles
    \/ ServerCompletes
    \/ PollTick

SpecFlow == Init /\ [][NextFlow]_vars

\* The step was started, and it ended well.
Attempted(step) == \E i \in DOMAIN flow.log : flow.log[i].step = step
Succeeded(step) ==
    \E i \in DOMAIN flow.log :
        flow.log[i].step = step /\ flow.log[i].outcome = "ok"

\* C28: newSwap is submitted only after the approval was confirmed, the
\* backend is told of the creation only after newSwap was confirmed and of
\* the readiness only after setReady was confirmed, the status polling is
\* set up only after the backend was told of the readiness, and a step
\* that did not end well is the last step of the run, which ends in the
\* error.
C28_FlowOrdering ==
    /\ Attempted("newSwap") => Succeeded("approveWait")
    /\ Attempted("notifyCreated") => Succeeded("newSwapWait")
    /\ Attempted("notifyReady") => Succeeded("setReadyWait")
    /\ statusInterval.state # "unset" => Succeeded("notifyReady")
    /\ \A i \in DOMAIN flow.log :
         flow.log[i].outcome # "ok" =>
           /\ i = Len(flow.log)
           /\ flow.status = "thrown"

====
